---- MODULE Spec2Model ----
(***************************************************************************)
(* Model of the text engine of Shellfast (src/cpp/filesystem/filesystem.cpp,*)
(* init_text): read_lines, grep, sort, diff, cmp, comm, wc, cut, paste and  *)
(* join.                                                                    *)
(*                                                                          *)
(* A byte is a one-character string; a file, a line and every rendered      *)
(* output is a sequence of bytes.  Each operation has its own               *)
(* specification (SpecGrep, SpecSort, SpecDiff, SpecCmp, SpecComm, SpecWc,  *)
(* SpecCut, SpecPaste, SpecJoin) over the same variables: fs is the content *)
(* of the files, args the arguments of the call, local the locals of the    *)
(* running call, ret the returned value and pc the position of the call.    *)
(***************************************************************************)
EXTENDS Integers, Sequences, FiniteSets, TLC

VARIABLES pc, fs, args, local, ret

vars == <<pc, fs, args, local, ret>>

(***************************************************************************)
(* Bounds of the model.                                                     *)
(***************************************************************************)
MaxDiffLines == 3
MaxCmpBytes == 3
MaxCommLines == 3
MaxJoinLines == 2
MaxSortLines == 3
LongSortLines == 17
MaxCutLines == 2
MaxPasteLines == 2
MaxGrepLines == 2
MaxWcBytes == 4

(***************************************************************************)
(* Bytes and strings.                                                       *)
(***************************************************************************)
NL == "\n"

\* The value of a byte as unsigned char, for the bytes the model uses.
Code(c) ==
    CASE c = "\t" -> 9
      [] c = "\n" -> 10
      [] c = " " -> 32
      [] c = "+" -> 43
      [] c = "," -> 44
      [] c = "-" -> 45
      [] c = "0" -> 48
      [] c = "1" -> 49
      [] c = "2" -> 50
      [] c = "3" -> 51
      [] c = "4" -> 52
      [] c = "5" -> 53
      [] c = "6" -> 54
      [] c = "7" -> 55
      [] c = "8" -> 56
      [] c = "9" -> 57
      [] c = ":" -> 58
      [] c = "A" -> 65
      [] c = "B" -> 66
      [] c = "a" -> 97
      [] c = "b" -> 98
      [] c = "c" -> 99
      [] c = "k" -> 107
      [] c = "j" -> 106
      [] c = "v" -> 118
      [] c = "w" -> 119
      [] c = "x" -> 120

\* ::tolower in the C locale.
tolower(c) ==
    CASE c = "A" -> "a"
      [] c = "B" -> "b"
      [] OTHER -> c

\* std::isspace in the C locale.
isspace(c) == c \in {" ", "\n", "\t", "\r", "\f"}

Min(a, b) == IF a < b THEN a ELSE b
Max(a, b) == IF a > b THEN a ELSE b

\* std::string operator< : lexicographic order on the bytes, a proper prefix
\* first.
RECURSIVE StrLessFrom(_, _, _)
StrLessFrom(s, t, k) ==
    IF k > Len(t) THEN FALSE
    ELSE IF k > Len(s) THEN TRUE
    ELSE IF Code(s[k]) < Code(t[k]) THEN TRUE
    ELSE IF Code(s[k]) > Code(t[k]) THEN FALSE
    ELSE StrLessFrom(s, t, k + 1)

StrLess(s, t) == StrLessFrom(s, t, 1)

\* std::reverse
ReverseMissing(s) == s

Reverse(s) == [k \in 1..Len(s) |-> s[Len(s) + 1 - k]]

\* Sequences over S of length at most n.
SeqsUpTo(S, n) == UNION {[1..k -> S] : k \in 0..n}

RECURSIVE Flatten(_)
Flatten(ss) == IF ss = <<>> THEN <<>> ELSE Head(ss) \o Flatten(Tail(ss))

\* oss << line << "\n" for every line: the content of a file of these lines.
FileOf(lines) == Flatten([k \in 1..Len(lines) |-> lines[k] \o <<NL>>])

(***************************************************************************)
(* read_lines: std::getline until it fails.  A last line with no newline is *)
(* a line; nothing follows a final newline.                                 *)
(***************************************************************************)
RECURSIVE ReadLinesFrom(_, _, _, _)
ReadLinesFrom(bytes, k, line, lines) ==
    IF k > Len(bytes)
    THEN IF line # <<>> THEN Append(lines, line) ELSE lines
    ELSE IF bytes[k] = NL
         THEN ReadLinesFrom(bytes, k + 1, <<>>, Append(lines, line))
         ELSE ReadLinesFrom(bytes, k + 1, Append(line, bytes[k]), lines)

read_lines(path) == ReadLinesFrom(fs[path], 1, <<>>, <<>>)

(***************************************************************************)
(* diff_impl                                                                *)
(***************************************************************************)
DiffLinesA == {<<"a">>, <<"b">>, <<"c">>}
DiffLinesB == {<<"a">>, <<"x">>, <<"c">>}
ContextChoices == {0, 3}

\* One cell of the LCS table, from the cells above and to the left.
DPCell(dp, i, j, lines1, lines2) ==
    IF lines1[i] = lines2[j]
    THEN dp[i - 1][j - 1] + 1
    ELSE Max(dp[i - 1][j], dp[i][j - 1])

\* The two nested loops that fill the table, row by row.
RECURSIVE FillDP(_, _, _, _, _)
FillDP(dp, i, j, lines1, lines2) ==
    IF i > Len(lines1) THEN dp
    ELSE IF j > Len(lines2) THEN FillDP(dp, i + 1, 1, lines1, lines2)
    ELSE FillDP([dp EXCEPT ![i][j] = DPCell(dp, i, j, lines1, lines2)],
                i, j + 1, lines1, lines2)

BuildDP(lines1, lines2) ==
    FillDP([i \in 0..Len(lines1) |-> [j \in 0..Len(lines2) |-> 0]],
           1, 1, lines1, lines2)

\* while (i > 0 || j > 0)
\* A loop that would run only while both indices are positive.
BacktrackMoreBoth(i, j) == i > 0 /\ j > 0

BacktrackMore(i, j) == IF i > 0 THEN TRUE ELSE j > 0

\* The three branches of the backtrack loop.
TakeEqual(i, j, lines1, lines2) ==
    i > 0 /\ j > 0 /\ lines1[i] = lines2[j]

PreferInsertStrict(dp, i, j) ==
    j > 0 /\ (IF i = 0 THEN TRUE ELSE dp[i][j - 1] > dp[i - 1][j])

PreferInsertFlipped(dp, i, j) ==
    j > 0 /\ (IF i = 0 THEN TRUE ELSE dp[i][j - 1] <= dp[i - 1][j])

PreferInsert(dp, i, j) ==
    j > 0 /\ (IF i = 0 THEN TRUE ELSE dp[i][j - 1] >= dp[i - 1][j])

\* A DiffLine whose two positions are stored in each other's place.
DiffLineSwapped(type, text, line1, line2) ==
    [type |-> type, text |-> text, line1 |-> line2, line2 |-> line1]

DiffLine(type, text, line1, line2) ==
    [type |-> type, text |-> text, line1 |-> line1, line2 |-> line2]

\* A rendering loop that would show the changes only, also when unified.
RECURSIVE RenderOpsChangesOnly(_, _)
RenderOpsChangesOnly(diffs, unified) ==
    IF diffs = <<>> THEN <<>>
    ELSE LET d == Head(diffs)
         IN (IF d.type # " "
             THEN <<d.type, " ">> \o d.text \o <<NL>>
             ELSE <<>>) \o RenderOpsChangesOnly(Tail(diffs), unified)

\* The rendering loop: the headers when unified, then one line per op shown.
RECURSIVE RenderOps(_, _)
RenderOps(diffs, unified) ==
    IF diffs = <<>> THEN <<>>
    ELSE LET d == Head(diffs)
         IN (IF d.type # " " \/ unified
             THEN <<d.type, " ">> \o d.text \o <<NL>>
             ELSE <<>>) \o RenderOps(Tail(diffs), unified)

\* A path name as bytes, for the headers.
PathBytes(p) == IF p = "f1" THEN <<"f", "1">> ELSE <<"f", "2">>

RenderDiff(diffs, file1, file2, unified) ==
    (IF unified
     THEN <<"-", "-", "-", " ">> \o PathBytes(file1) \o <<NL>>
          \o <<"+", "+", "+", " ">> \o PathBytes(file2) \o <<NL>>
     ELSE <<>>) \o RenderOps(diffs, unified)

InitDiff ==
    /\ pc = "diff_call"
    /\ \E l1 \in SeqsUpTo(DiffLinesA, MaxDiffLines),
          l2 \in SeqsUpTo(DiffLinesB, MaxDiffLines) :
          fs = [f1 |-> FileOf(l1), f2 |-> FileOf(l2)]
    /\ args \in [file1 : {"f1"}, file2 : {"f2"}, unified : BOOLEAN,
                 context_lines : ContextChoices]
    /\ local = [lines1 |-> <<>>, lines2 |-> <<>>, dp |-> <<>>, i |-> 0, j |-> 0,
                diffs |-> <<>>]
    /\ ret = [script |-> <<>>, out |-> <<>>]

\* read both files, fill the table, start the backtrack at (n, m)
diff_read ==
    /\ pc = "diff_call"
    /\ LET lines1 == read_lines(args.file1)
           lines2 == read_lines(args.file2)
       IN local' = [lines1 |-> lines1, lines2 |-> lines2,
                    dp |-> BuildDP(lines1, lines2),
                    i |-> Len(lines1), j |-> Len(lines2), diffs |-> <<>>]
    /\ pc' = "backtrack"
    /\ UNCHANGED <<fs, args, ret>>

backtrack_equal ==
    /\ pc = "backtrack"
    /\ BacktrackMore(local.i, local.j)
    /\ TakeEqual(local.i, local.j, local.lines1, local.lines2)
    /\ local' = [local EXCEPT
                   !.diffs = Append(@, DiffLine(" ", local.lines1[local.i],
                                                local.i, local.j)),
                   !.i = @ - 1, !.j = @ - 1]
    /\ UNCHANGED <<pc, fs, args, ret>>

backtrack_insert ==
    /\ pc = "backtrack"
    /\ BacktrackMore(local.i, local.j)
    /\ ~TakeEqual(local.i, local.j, local.lines1, local.lines2)
    /\ PreferInsert(local.dp, local.i, local.j)
    /\ local' = [local EXCEPT
                   !.diffs = Append(@, DiffLine("+", local.lines2[local.j],
                                                0, local.j)),
                   !.j = @ - 1]
    /\ UNCHANGED <<pc, fs, args, ret>>

backtrack_delete ==
    /\ pc = "backtrack"
    /\ BacktrackMore(local.i, local.j)
    /\ ~TakeEqual(local.i, local.j, local.lines1, local.lines2)
    /\ ~PreferInsert(local.dp, local.i, local.j)
    /\ local' = [local EXCEPT
                   !.diffs = Append(@, DiffLine("-", local.lines1[local.i],
                                                local.i, 0)),
                   !.i = @ - 1]
    /\ UNCHANGED <<pc, fs, args, ret>>

\* the loop has ended: reverse the ops and render them
diff_render ==
    /\ pc = "backtrack"
    /\ ~BacktrackMore(local.i, local.j)
    /\ LET diffs == Reverse(local.diffs)
       IN ret' = [script |-> diffs,
                  out |-> RenderDiff(diffs, args.file1, args.file2, args.unified)]
    /\ pc' = "done"
    /\ UNCHANGED <<fs, args, local>>

NextDiff ==
    \/ diff_read
    \/ backtrack_equal
    \/ backtrack_insert
    \/ backtrack_delete
    \/ diff_render

SpecDiff == InitDiff /\ [][NextDiff]_vars

\* The steps of the backtrack loop and of what follows it.  The call is
\* sequential code: once in the loop, a step that can be taken is taken.
BacktrackLoop ==
    \/ backtrack_equal
    \/ backtrack_insert
    \/ backtrack_delete
    \/ diff_render

SpecDiffLive == SpecDiff /\ WF_vars(BacktrackLoop)

(***************************************************************************)
(* cmp_impl                                                                 *)
(***************************************************************************)
CmpBytes == {"a", "b", NL}

\* std::to_string of a natural number.
RECURSIVE to_string(_)
to_string(n) ==
    LET digit == <<"0", "1", "2", "3", "4", "5", "6", "7", "8", "9">>[(n % 10) + 1]
    IN IF n < 10 THEN <<digit>> ELSE to_string(n \div 10) \o <<digit>>

\* An std::ifstream: the position of the next byte and the fail state.
OpenStream == [pos |-> 1, fail |-> FALSE]

\* istream::get(char&): a byte is extracted when the stream is good and has
\* one; otherwise the stream fails, and stays failed.
Get(bytes, s) ==
    IF ~s.fail /\ s.pos <= Len(bytes)
    THEN [ok |-> TRUE, c |-> bytes[s.pos], s |-> [s EXCEPT !.pos = @ + 1]]
    ELSE [ok |-> FALSE, c |-> "", s |-> [s EXCEPT !.fail = TRUE]]

\* result["message"]
CmpMessage(file1, file2, byte_offset, line_number) ==
    PathBytes(file1) \o <<" ">> \o PathBytes(file2)
    \o <<" ", "d", "i", "f", "f", "e", "r", ":", " ", "b", "y", "t", "e", " ">>
    \o to_string(byte_offset) \o <<",", " ", "l", "i", "n", "e", " ">>
    \o to_string(line_number)

\* The dict returned: only "identical" when identical or silent.
CmpResult(identical, silent, file1, file2, byte_offset, line_number) ==
    IF ~identical /\ ~silent
    THEN [identical |-> identical, byte_offset |-> byte_offset,
          line_number |-> line_number,
          message |-> CmpMessage(file1, file2, byte_offset, line_number)]
    ELSE [identical |-> identical]

InitCmp ==
    /\ pc = "cmp_loop"
    /\ fs \in [f1 : SeqsUpTo(CmpBytes, MaxCmpBytes),
               f2 : SeqsUpTo(CmpBytes, MaxCmpBytes)]
    /\ args \in [file1 : {"f1"}, file2 : {"f2"}, silent : BOOLEAN]
    /\ local = [ifs1 |-> OpenStream, ifs2 |-> OpenStream, byte_offset |-> 0,
                line_number |-> 1, identical |-> TRUE]
    /\ ret = [identical |-> TRUE]

\* The loop with the newline counted after the comparison: a mismatching
\* newline leaves the loop before it is counted.
cmp_loop_count_after_compare ==
    /\ pc = "cmp_loop"
    /\ LET g1 == Get(fs[args.file1], local.ifs1)
           g2 == Get(fs[args.file2], local.ifs2)
       IN IF ~g1.ok
          THEN /\ local' = [local EXCEPT !.ifs1 = g1.s]
               /\ pc' = "cmp_tail"
          ELSE IF ~g2.ok
          THEN /\ local' = [local EXCEPT !.ifs1 = g1.s, !.ifs2 = g2.s]
               /\ pc' = "cmp_tail"
          ELSE /\ local' = [local EXCEPT
                              !.ifs1 = g1.s, !.ifs2 = g2.s,
                              !.byte_offset = @ + 1,
                              !.line_number =
                                  IF g1.c = NL /\ g1.c = g2.c THEN @ + 1 ELSE @,
                              !.identical = (g1.c = g2.c)]
               /\ pc' = IF g1.c # g2.c THEN "cmp_tail" ELSE "cmp_loop"
    /\ UNCHANGED <<fs, args, ret>>

\* One evaluation of the loop condition, ifs1.get(c1) && ifs2.get(c2), and
\* the body when it holds.  ifs2 is read only when ifs1 gave a byte.
cmp_loop ==
    /\ pc = "cmp_loop"
    /\ LET g1 == Get(fs[args.file1], local.ifs1)
           g2 == Get(fs[args.file2], local.ifs2)
       IN IF ~g1.ok
          THEN /\ local' = [local EXCEPT !.ifs1 = g1.s]
               /\ pc' = "cmp_tail"
          ELSE IF ~g2.ok
          THEN /\ local' = [local EXCEPT !.ifs1 = g1.s, !.ifs2 = g2.s]
               /\ pc' = "cmp_tail"
          ELSE /\ local' = [local EXCEPT
                              !.ifs1 = g1.s, !.ifs2 = g2.s,
                              !.byte_offset = @ + 1,
                              !.line_number = IF g1.c = NL THEN @ + 1 ELSE @,
                              !.identical = (g1.c = g2.c)]
               /\ pc' = IF g1.c # g2.c THEN "cmp_tail" ELSE "cmp_loop"
    /\ UNCHANGED <<fs, args, ret>>

\* if (identical && (ifs1.get(c1) || ifs2.get(c2))), then the result
cmp_tail ==
    /\ pc = "cmp_tail"
    /\ LET g1 == Get(fs[args.file1], local.ifs1)
           g2 == Get(fs[args.file2], local.ifs2)
           more == IF g1.ok THEN TRUE ELSE g2.ok
           identical == IF local.identical /\ more THEN FALSE ELSE local.identical
           byte_offset == IF local.identical /\ more
                          THEN local.byte_offset + 1 ELSE local.byte_offset
       IN /\ local' = [local EXCEPT
                         !.ifs1 = IF local.identical THEN g1.s ELSE @,
                         !.ifs2 = IF local.identical /\ ~g1.ok THEN g2.s ELSE @,
                         !.identical = identical,
                         !.byte_offset = byte_offset]
          /\ ret' = CmpResult(identical, args.silent, args.file1, args.file2,
                              byte_offset, local.line_number)
    /\ pc' = "done"
    /\ UNCHANGED <<fs, args>>

NextCmp ==
    \/ cmp_loop
    \/ cmp_tail

SpecCmp == InitCmp /\ [][NextCmp]_vars

(***************************************************************************)
(* comm_impl                                                                *)
(***************************************************************************)
CommLines == {<<"a">>, <<"b">>, <<"a", "b">>}

\* std::set<std::string>(lines.begin(), lines.end())
SetOfLines(lines) == {lines[k] : k \in 1..Len(lines)}

\* The elements of a std::set in iteration order: ascending by operator<.
RECURSIVE SetInOrder(_)
SetInOrder(S) ==
    IF S = {} THEN <<>>
    ELSE LET least == CHOOSE x \in S : \A y \in S \ {x} : StrLess(x, y)
         IN <<least>> \o SetInOrder(S \ {least})

\* std::set::count
SetCount(S, line) == IF line \in S THEN 1 ELSE 0

\* for (line : set1) if (set2.count(line)) in_both.append(line)
\*                   else only_in_1.append(line)
RECURSIVE CommFirstLoop(_, _, _, _)
CommFirstLoop(order1, set2, only_in_1, in_both) ==
    IF order1 = <<>> THEN [only_in_1 |-> only_in_1, in_both |-> in_both]
    ELSE IF SetCount(set2, Head(order1)) # 0
         THEN CommFirstLoop(Tail(order1), set2, only_in_1,
                            Append(in_both, Head(order1)))
         ELSE CommFirstLoop(Tail(order1), set2,
                            Append(only_in_1, Head(order1)), in_both)

\* The second loop with the negation lost.
RECURSIVE CommSecondLoopNoNot(_, _, _)
CommSecondLoopNoNot(order2, set1, only_in_2) ==
    IF order2 = <<>> THEN only_in_2
    ELSE IF SetCount(set1, Head(order2)) # 0
         THEN CommSecondLoopNoNot(Tail(order2), set1, Append(only_in_2, Head(order2)))
         ELSE CommSecondLoopNoNot(Tail(order2), set1, only_in_2)

\* for (line : set2) if (!set1.count(line)) only_in_2.append(line)
RECURSIVE CommSecondLoop(_, _, _)
CommSecondLoop(order2, set1, only_in_2) ==
    IF order2 = <<>> THEN only_in_2
    ELSE IF SetCount(set1, Head(order2)) = 0
         THEN CommSecondLoop(Tail(order2), set1, Append(only_in_2, Head(order2)))
         ELSE CommSecondLoop(Tail(order2), set1, only_in_2)

InitComm ==
    /\ pc = "comm_call"
    /\ \E l1 \in SeqsUpTo(CommLines, MaxCommLines),
          l2 \in SeqsUpTo(CommLines, MaxCommLines) :
          fs = [f1 |-> FileOf(l1), f2 |-> FileOf(l2)]
    /\ args = [file1 |-> "f1", file2 |-> "f2"]
    /\ local = [lines1 |-> <<>>, lines2 |-> <<>>]
    /\ ret = [only_in_first |-> <<>>, only_in_second |-> <<>>, in_both |-> <<>>]

comm_impl ==
    /\ pc = "comm_call"
    /\ LET lines1 == read_lines(args.file1)
           lines2 == read_lines(args.file2)
           set1 == SetOfLines(lines1)
           set2 == SetOfLines(lines2)
           first == CommFirstLoop(SetInOrder(set1), set2, <<>>, <<>>)
       IN /\ local' = [lines1 |-> lines1, lines2 |-> lines2]
          /\ ret' = [only_in_first |-> first.only_in_1,
                     only_in_second |-> CommSecondLoop(SetInOrder(set2), set1, <<>>),
                     in_both |-> first.in_both]
    /\ pc' = "done"
    /\ UNCHANGED <<fs, args>>

NextComm == comm_impl

SpecComm == InitComm /\ [][NextComm]_vars

(***************************************************************************)
(* Field extraction shared by join_impl (get_field) and sort_impl (get_key).*)
(***************************************************************************)
\* std::string::find(sep) from position k: the index of the first sep at or
\* after k, 0 (npos) when there is none.
RECURSIVE FindFrom(_, _, _)
FindFrom(s, sep, k) ==
    IF k > Len(s) THEN 0
    ELSE IF s[k] = sep THEN k
    ELSE FindFrom(s, sep, k + 1)

\* iss >> token: whitespace is skipped, then the bytes up to the next
\* whitespace are extracted; the extraction fails when there are none.
RECURSIVE SkipSpace(_, _)
SkipSpace(s, k) ==
    IF k <= Len(s) /\ isspace(s[k]) THEN SkipSpace(s, k + 1) ELSE k

RECURSIVE TokenEnd(_, _)
TokenEnd(s, k) ==
    IF k <= Len(s) /\ ~isspace(s[k]) THEN TokenEnd(s, k + 1) ELSE k

ExtractToken(s, pos) ==
    LET from == SkipSpace(s, pos)
        to == TokenEnd(s, from)
    IN [ok |-> to > from, token |-> SubSeq(s, from, to - 1), pos |-> to]

\* for (i = 0; i < field; i++) if (!(iss >> token)) return "";  return token;
RECURSIVE WhitespaceField(_, _, _, _, _)
WhitespaceField(line, field, i, pos, token) ==
    IF i >= field THEN token
    ELSE LET e == ExtractToken(line, pos)
         IN IF ~e.ok THEN <<>>
            ELSE WhitespaceField(line, field, i + 1, e.pos, e.token)

\* for (i = 1; i < field; i++) { pos = temp.find(sep); if (npos) return "";
\*   temp = temp.substr(pos + 1); }  then temp up to the next sep.
RECURSIVE DelimitedField(_, _, _, _)
DelimitedField(temp, field, i, sep) ==
    LET pos == FindFrom(temp, sep, 1)
    IN IF i < field
       THEN IF pos = 0 THEN <<>>
            ELSE DelimitedField(SubSeq(temp, pos + 1, Len(temp)), field, i + 1, sep)
       ELSE IF pos # 0 THEN SubSeq(temp, 1, pos - 1) ELSE temp

(***************************************************************************)
(* join_impl                                                                *)
(***************************************************************************)
JoinLines == {<<"k", " ", "v">>, <<"j", " ", "v">>,
              <<"k", ":", "v">>, <<"k", ":", "w">>}
JoinSeparators == {<<>>, <<":">>}
JoinFields == {0, 1, 2}

\* char sep = separator.empty() ? ' ' : separator[0];
JoinSep(separator) == IF separator = <<>> THEN " " ELSE separator[1]

\* the lambda get_field: whitespace tokens when sep is a space
get_field(line, field, sep) ==
    IF sep = " "
    THEN WhitespaceField(line, field, 0, 1, <<>>)
    ELSE DelimitedField(line, field, 1, sep)

\* std::map::emplace would drop a line whose key is already present.
MapEmplace(index, key, line) ==
    IF \E k \in 1..Len(index) : index[k].key = key
    THEN index
    ELSE LET before == Cardinality({k \in 1..Len(index) : ~StrLess(key, index[k].key)})
         IN SubSeq(index, 1, before) \o <<[key |-> key, line |-> line]>>
            \o SubSeq(index, before + 1, Len(index))

\* std::multimap::emplace: the entries stay ordered by key, and a new entry
\* goes after the entries of an equal key.
MultimapEmplace(index, key, line) ==
    LET before == Cardinality({k \in 1..Len(index) : ~StrLess(key, index[k].key)})
    IN SubSeq(index, 1, before) \o <<[key |-> key, line |-> line]>>
       \o SubSeq(index, before + 1, Len(index))

\* Build index on file2
RECURSIVE BuildIndex(_, _, _, _)
BuildIndex(lines2, field2, sep, index) ==
    IF lines2 = <<>> THEN index
    ELSE BuildIndex(Tail(lines2), field2, sep,
                    MultimapEmplace(index, get_field(Head(lines2), field2, sep),
                                    Head(lines2)))

\* std::multimap::equal_range: the entries whose key is equivalent to key.
equal_range(index, key) ==
    SelectSeq(index, LAMBDA e : ~StrLess(e.key, key) /\ ~StrLess(key, e.key))

\* oss << line << sep << it->second << "\n" for every entry of the range
RECURSIVE JoinRows(_, _, _)
JoinRows(line, sep, range) ==
    IF range = <<>> THEN <<>>
    ELSE line \o <<sep>> \o Head(range).line \o <<NL>>
         \o JoinRows(line, sep, Tail(range))

RECURSIVE JoinLoop(_, _, _, _)
JoinLoop(lines1, field1, sep, index2) ==
    IF lines1 = <<>> THEN <<>>
    ELSE JoinRows(Head(lines1), sep,
                  equal_range(index2, get_field(Head(lines1), field1, sep)))
         \o JoinLoop(Tail(lines1), field1, sep, index2)

InitJoin ==
    /\ pc = "join_call"
    /\ \E l1 \in SeqsUpTo(JoinLines, MaxJoinLines),
          l2 \in SeqsUpTo(JoinLines, MaxJoinLines) :
          fs = [f1 |-> FileOf(l1), f2 |-> FileOf(l2)]
    /\ args \in [file1 : {"f1"}, file2 : {"f2"}, field1 : JoinFields,
                 field2 : JoinFields, separator : JoinSeparators]
    /\ local = [lines1 |-> <<>>, lines2 |-> <<>>, sep |-> " ", index2 |-> <<>>]
    /\ ret = <<>>

join_impl ==
    /\ pc = "join_call"
    /\ LET lines1 == read_lines(args.file1)
           lines2 == read_lines(args.file2)
           sep == JoinSep(args.separator)
           index2 == BuildIndex(lines2, args.field2, sep, <<>>)
       IN /\ local' = [lines1 |-> lines1, lines2 |-> lines2, sep |-> sep,
                       index2 |-> index2]
          /\ ret' = JoinLoop(lines1, args.field1, sep, index2)
    /\ pc' = "done"
    /\ UNCHANGED <<fs, args>>

NextJoin == join_impl

SpecJoin == InitJoin /\ [][NextJoin]_vars

(***************************************************************************)
(* sort_impl                                                                *)
(***************************************************************************)
SortLines == {<<"c", " ", "2">>, <<"a", " ", "1", "0">>, <<"A", " ", "1", "0">>,
              <<"b", ":", "2">>, <<"1", "0">>, <<"2">>}
SortSeparators == {<<>>, <<":">>}
SortKeys == {0, 1, 2}

\* the lambda get_key: the whole line when key <= 0, else the key-th field,
\* whitespace tokens when the separator is empty
get_key(line, key, separator) ==
    IF key <= 0 THEN line
    ELSE IF separator = <<>>
         THEN WhitespaceField(line, key, 0, 1, <<>>)
         ELSE DelimitedField(line, key, 1, separator[1])

IsDigit(c) == c \in {"0", "1", "2", "3", "4", "5", "6", "7", "8", "9"}

RECURSIVE DigitsEnd(_, _)
DigitsEnd(s, k) ==
    IF k <= Len(s) /\ IsDigit(s[k]) THEN DigitsEnd(s, k + 1) ELSE k

RECURSIVE DecimalValue(_)
DecimalValue(digits) ==
    IF digits = <<>> THEN 0
    ELSE 10 * DecimalValue(SubSeq(digits, 1, Len(digits) - 1))
         + (Code(digits[Len(digits)]) - Code("0"))

\* std::stod on the bytes of SortLines (digits, letters a b c A, space and
\* colon: no sign, point or exponent): leading whitespace is skipped and the
\* longest run of digits is the value; with no digit it throws (ok is FALSE).
stod(s) ==
    LET from == SkipSpace(s, 1)
        to == DigitsEnd(s, from)
    IN [ok |-> to > from, val |-> DecimalValue(SubSeq(s, from, to - 1))]

\* std::transform(k.begin(), k.end(), k.begin(), ::tolower)
ToLower(s) == [k \in 1..Len(s) |-> tolower(s[k])]

\* The numeric comparator with a fallback on the keys instead of the lines.
NumericLessKeyFallback(a, b, key, separator) ==
    LET ka == get_key(a, key, separator)
        kb == get_key(b, key, separator)
    IN IF stod(ka).ok /\ stod(kb).ok THEN stod(ka).val < stod(kb).val
       ELSE StrLess(ka, kb)

\* The three comparators handed to std::sort.
NumericLess(a, b, key, separator) ==
    LET va == stod(get_key(a, key, separator))
        vb == stod(get_key(b, key, separator))
    IN IF va.ok /\ vb.ok THEN va.val < vb.val ELSE StrLess(a, b)

IgnoreCaseLess(a, b, key, separator) ==
    StrLess(ToLower(get_key(a, key, separator)), ToLower(get_key(b, key, separator)))

\* The plain comparator on the whole lines, whatever the key.
PlainLessWholeLine(a, b, key, separator) == StrLess(a, b)

PlainLess(a, b, key, separator) ==
    StrLess(get_key(a, key, separator), get_key(b, key, separator))

\* if (numeric) ... else if (ignore_case) ... else ...
SortLess(a, b, f) ==
    IF f.numeric THEN NumericLess(a, b, f.key, f.separator)
    ELSE IF f.ignore_case THEN IgnoreCaseLess(a, b, f.key, f.separator)
    ELSE PlainLess(a, b, f.key, f.separator)

\* The comparator as a relation on the lines sorted: the pairs <<x, y>> with
\* comp(x, y).
LessPairs(S, f) == {p \in S \X S : SortLess(p[1], p[2], f)}

(***************************************************************************)
(* std::sort as libstdc++ (the library of the g++ build) implements it:     *)
(* introsort.  A range of more than 16 elements is partitioned around the   *)
(* median of three until every part has at most 16, then one insertion sort *)
(* finishes the whole range; a range of at most 16 elements is sorted by    *)
(* the insertion sort alone.  The heap sort that takes over after           *)
(* 2 * lg(n) partitions in a row is not reached for fewer than 25 elements, *)
(* more than the model sorts, and is left out.  lt is the comparator, as    *)
(* the set of pairs <<x, y>> with comp(x, y); positions count from 1 and a  *)
(* range is first .. last - 1.                                              *)
(***************************************************************************)
Swap(a, i, j) == [a EXCEPT ![i] = a[j], ![j] = a[i]]

\* A linear insert that shifts one element up and never stores val.
UnguardedLinearInsertNoStore(a, last, val, lt) ==
    IF <<val, a[last - 1]>> \in lt THEN [a EXCEPT ![last] = a[last - 1]] ELSE a

\* __unguarded_linear_insert: val sinks from the hole at last while it is
\* less than the element before the hole.
RECURSIVE UnguardedLinearInsert(_, _, _, _)
UnguardedLinearInsert(a, last, val, lt) ==
    IF <<val, a[last - 1]>> \in lt
    THEN UnguardedLinearInsert([a EXCEPT ![last] = a[last - 1]], last - 1, val, lt)
    ELSE [a EXCEPT ![last] = val]

\* The body of the loop of __insertion_sort for the element at i: to the
\* front when it is less than the first element, else a linear insert.
InsertionStep(a, first, i, lt) ==
    IF <<a[i], a[first]>> \in lt
    THEN SubSeq(a, 1, first - 1) \o <<a[i]>> \o SubSeq(a, first, i - 1)
            \o SubSeq(a, i + 1, Len(a))
    ELSE UnguardedLinearInsert(a, i, a[i], lt)

RECURSIVE InsertionLoop(_, _, _, _, _)
InsertionLoop(a, first, last, i, lt) ==
    IF i >= last THEN a
    ELSE InsertionLoop(InsertionStep(a, first, i, lt), first, last, i + 1, lt)

\* __insertion_sort(first, last)
InsertionSort(a, first, last, lt) ==
    IF first = last THEN a ELSE InsertionLoop(a, first, last, first + 1, lt)

\* __unguarded_insertion_sort(first, last)
RECURSIVE UnguardedInsertionSort(_, _, _, _)
UnguardedInsertionSort(a, i, last, lt) ==
    IF i >= last THEN a
    ELSE UnguardedInsertionSort(UnguardedLinearInsert(a, i, a[i], lt), i + 1, last, lt)

\* __final_insertion_sort(first, last)
FinalInsertionSort(a, first, last, lt) ==
    IF last - first > 16
    THEN UnguardedInsertionSort(InsertionSort(a, first, first + 16, lt),
                                first + 16, last, lt)
    ELSE InsertionSort(a, first, last, lt)

\* __move_median_to_first(result, x, y, z): the median of the elements at x,
\* y and z is swapped to result.
MoveMedianToFirst(a, result, x, y, z, lt) ==
    IF <<a[x], a[y]>> \in lt
    THEN IF <<a[y], a[z]>> \in lt THEN Swap(a, result, y)
         ELSE IF <<a[x], a[z]>> \in lt THEN Swap(a, result, z)
         ELSE Swap(a, result, x)
    ELSE IF <<a[x], a[z]>> \in lt THEN Swap(a, result, x)
    ELSE IF <<a[y], a[z]>> \in lt THEN Swap(a, result, z)
    ELSE Swap(a, result, y)

RECURSIVE ScanUp(_, _, _, _)
ScanUp(a, first, pivot, lt) ==
    IF <<a[first], a[pivot]>> \in lt THEN ScanUp(a, first + 1, pivot, lt) ELSE first

RECURSIVE ScanDown(_, _, _, _)
ScanDown(a, last, pivot, lt) ==
    IF <<a[pivot], a[last]>> \in lt THEN ScanDown(a, last - 1, pivot, lt) ELSE last

\* __unguarded_partition(first, last, pivot): the array and the cut.
RECURSIVE UnguardedPartition(_, _, _, _, _)
UnguardedPartition(a, first, last, pivot, lt) ==
    LET up == ScanUp(a, first, pivot, lt)
        down == ScanDown(a, last - 1, pivot, lt)
    IN IF ~(up < down) THEN [a |-> a, cut |-> up]
       ELSE UnguardedPartition(Swap(a, up, down), up + 1, down, pivot, lt)

\* __introsort_loop(first, last): the right part by recursion, the left part
\* by the loop.
RECURSIVE IntrosortLoop(_, _, _, _)
IntrosortLoop(a, first, last, lt) ==
    IF last - first > 16
    THEN LET mid == first + ((last - first) \div 2)
             part == UnguardedPartition(
                         MoveMedianToFirst(a, first, first + 1, mid, last - 1, lt),
                         first + 1, last, first, lt)
         IN IntrosortLoop(IntrosortLoop(part.a, part.cut, last, lt),
                          first, part.cut, lt)
    ELSE a

\* A sort that makes one pass of adjacent exchanges only.
RECURSIVE OnePass(_, _, _)
OnePass(s, k, f) ==
    IF k >= Len(s) THEN s
    ELSE IF SortLess(s[k + 1], s[k], f)
         THEN OnePass([s EXCEPT ![k] = s[k + 1], ![k + 1] = s[k]], k + 1, f)
         ELSE OnePass(s, k + 1, f)

std_sort_one_pass(lines, f) == OnePass(lines, 1, f)

\* std::sort(lines.begin(), lines.end(), comp) with the comparator the flags
\* select.
std_sort(lines, f) ==
    LET lt == LessPairs(SetOfLines(lines), f)
        last == Len(lines) + 1
    IN IF lines = <<>> THEN lines
       ELSE FinalInsertionSort(IntrosortLoop(lines, 1, last, lt), 1, last, lt)

\* The requirement of std::sort on its comparator, over the lines sorted.
IsStrictWeakOrder(S, lt) ==
    LET equiv(x, y) == <<x, y>> \notin lt /\ <<y, x>> \notin lt
    IN /\ \A x \in S : <<x, x>> \notin lt
       /\ \A x, y, z \in S : <<x, y>> \in lt /\ <<y, z>> \in lt => <<x, z>> \in lt
       /\ \A x, y, z \in S : equiv(x, y) /\ equiv(y, z) => equiv(x, z)

\* A de-duplication that drops every line seen before, adjacent or not.
RECURSIVE UniqueAnywhere(_, _)
UniqueAnywhere(s, kept) ==
    IF s = <<>> THEN kept
    ELSE IF \E k \in 1..Len(kept) : kept[k] = Head(s)
         THEN UniqueAnywhere(Tail(s), kept)
         ELSE UniqueAnywhere(Tail(s), Append(kept, Head(s)))

std_unique_anywhere(s) == UniqueAnywhere(s, <<>>)

\* lines.erase(std::unique(lines.begin(), lines.end()), lines.end()): a line
\* is copied to the result unless it equals the last line kept.
RECURSIVE UniqueFrom(_, _)
UniqueFrom(s, kept) ==
    IF s = <<>> THEN kept
    ELSE IF kept # <<>> /\ kept[Len(kept)] = Head(s)
         THEN UniqueFrom(Tail(s), kept)
         ELSE UniqueFrom(Tail(s), Append(kept, Head(s)))

std_unique(s) == UniqueFrom(s, <<>>)

\* The files sorted: every sequence of up to MaxSortLines of the lines above,
\* and the three lines b, a, c.
SortFiles == SeqsUpTo(SortLines, MaxSortLines) \cup {<<<<"b">>, <<"a">>, <<"c">>>>}

InitSort ==
    /\ pc = "sort_call"
    /\ \E l \in SortFiles : fs = [f1 |-> FileOf(l), f2 |-> <<>>]
    /\ args \in [path : {"f1"}, reverse : BOOLEAN, numeric : BOOLEAN,
                 unique : BOOLEAN, key : SortKeys, separator : SortSeparators,
                 ignore_case : BOOLEAN]
    /\ local = [lines |-> <<>>, sorted |-> <<>>, final |-> <<>>]
    /\ ret = <<>>

\* One call: read, std::sort, reverse, unique, render.  local keeps the lines
\* read, the lines as std::sort left them and the lines rendered; ret is the
\* list of the strings returned so far.
sort_impl ==
    /\ pc = "sort_call"
    /\ LET lines == read_lines(args.path)
           sorted == std_sort(lines, args)
           reversed == IF args.reverse THEN Reverse(sorted) ELSE sorted
           final == IF args.unique THEN std_unique(reversed) ELSE reversed
       IN /\ local' = [lines |-> lines, sorted |-> sorted, final |-> final]
          /\ ret' = Append(ret, FileOf(final))
    /\ pc' = "done"
    /\ UNCHANGED <<fs, args>>

\* The caller writes the string returned to a second file and sorts that
\* file, same flags.
sort_again ==
    /\ pc = "done"
    /\ Len(ret) = 1
    /\ fs' = [fs EXCEPT !.f2 = ret[1]]
    /\ args' = [args EXCEPT !.path = "f2"]
    /\ pc' = "sort_call"
    /\ UNCHANGED <<local, ret>>

NextSort ==
    \/ sort_impl
    \/ sort_again

SpecSort == InitSort /\ [][NextSort]_vars

\* Files long enough for std::sort to partition: LongSortLines lines, all
\* "a 10" but for at most two "A 10".
LongFiles ==
    {[k \in 1..LongSortLines |->
         IF k \in Y THEN <<"A", " ", "1", "0">> ELSE <<"a", " ", "1", "0">>] :
       Y \in {Z \in SUBSET (1..LongSortLines) : Cardinality(Z) <= 2}}

InitSortLong ==
    /\ pc = "sort_call"
    /\ \E l \in LongFiles : fs = [f1 |-> FileOf(l), f2 |-> <<>>]
    /\ args \in [path : {"f1"}, reverse : BOOLEAN, numeric : BOOLEAN,
                 unique : BOOLEAN, key : SortKeys, separator : SortSeparators,
                 ignore_case : BOOLEAN]
    /\ local = [lines |-> <<>>, sorted |-> <<>>, final |-> <<>>]
    /\ ret = <<>>

SpecSortLong == InitSortLong /\ [][NextSort]_vars

(***************************************************************************)
(* cut_impl                                                                 *)
(***************************************************************************)
TAB == "\t"

CutLines == {<<"a", ":", "b", ":", "c">>, <<"a", ":", "b", ":">>, <<"a">>,
             <<>>, <<":", "b">>, <<"a", TAB, "b">>}
CutDelimiters == {<<>>, <<":">>}
CutSelectors == {<<"1", ",", "3">>, <<"3", ",", "1">>, <<"1", "-", "3">>,
                 <<"2">>, <<"2", ",", "2">>, <<"1", "-", "2", ",", "2", "-", "3">>,
                 <<"1", ",", "5">>, <<"4">>, <<"0", "-", "1">>, <<"3", "-", "2">>,
                 <<>>, <<"1", ",">>, <<",", "1">>, <<"-", "2">>}

\* while (std::getline(stream, token, sep)) tokens.push_back(token): the
\* bytes up to the next sep, or up to the end of the stream, are a token; at
\* the end of the stream nothing is extracted and the loop ends, so nothing
\* follows a final sep.
RECURSIVE GetlineTokens(_, _, _, _)
GetlineTokens(s, sep, k, tokens) ==
    IF k > Len(s) THEN tokens
    ELSE LET pos == FindFrom(s, sep, k)
         IN IF pos = 0 THEN Append(tokens, SubSeq(s, k, Len(s)))
            ELSE GetlineTokens(s, sep, pos + 1, Append(tokens, SubSeq(s, k, pos - 1)))

\* std::stoi: whitespace is skipped, a sign is read, and the longest run of
\* digits is the value; with no digit it throws (ok is FALSE).
stoi(s) ==
    LET start == SkipSpace(s, 1)
        signed == start <= Len(s) /\ s[start] \in {"-", "+"}
        from == IF signed THEN start + 1 ELSE start
        to == DigitsEnd(s, from)
        magnitude == DecimalValue(SubSeq(s, from, to - 1))
    IN [ok |-> to > from,
        val |-> IF signed /\ s[start] = "-" THEN 0 - magnitude ELSE magnitude]

\* The fields one part of the selector adds: start..end for "start-end",
\* else the one number; ok is FALSE when std::stoi throws.
PartFields(part) ==
    LET dash == FindFrom(part, "-", 1)
        start == stoi(SubSeq(part, 1, dash - 1))
        end == stoi(SubSeq(part, dash + 1, Len(part)))
        one == stoi(part)
    IN IF dash # 0
       THEN [ok |-> start.ok /\ end.ok,
             set |-> IF start.ok /\ end.ok THEN start.val..end.val ELSE {}]
       ELSE [ok |-> one.ok, set |-> IF one.ok THEN {one.val} ELSE {}]

\* The loop over the parts of the selector, filling field_set.
RECURSIVE FieldSet(_, _, _)
FieldSet(parts, k, field_set) ==
    IF k > Len(parts) THEN [ok |-> TRUE, set |-> field_set]
    ELSE LET p == PartFields(parts[k])
         IN IF ~p.ok THEN [ok |-> FALSE, set |-> field_set]
            ELSE FieldSet(parts, k + 1, field_set \cup p.set)

ParseFields(fields) == FieldSet(GetlineTokens(fields, ",", 1, <<>>), 1, {})

\* for (int f : field_set): the fields of the set in ascending order; a
\* field the line has is written, after sep unless it is the first written.
RECURSIVE EmitFields(_, _, _, _, _)
EmitFields(tokens, field_set, first, out, sep) ==
    IF field_set = {} THEN out
    ELSE LET f == CHOOSE x \in field_set : \A y \in field_set : x <= y
             rest == field_set \ {f}
         IN IF f >= 1 /\ f <= Len(tokens)
            THEN EmitFields(tokens, rest, FALSE,
                            out \o (IF first THEN <<>> ELSE <<sep>>) \o tokens[f], sep)
            ELSE EmitFields(tokens, rest, first, out, sep)

\* A line that gets an empty field for every selected index it does not have.
CutLinePadded(line, field_set, sep) ==
    LET tokens == GetlineTokens(line, sep, 1, <<>>)
        top == IF field_set = {} THEN 0
               ELSE CHOOSE x \in field_set : \A y \in field_set : y <= x
        padded == [k \in 1..Max(top, Len(tokens)) |->
                      IF k <= Len(tokens) THEN tokens[k] ELSE <<>>]
    IN EmitFields(padded, field_set, TRUE, <<>>, sep) \o <<NL>>

\* The body of the loop over the lines: the line is split at sep and its
\* selected fields are written, then a newline.
CutLine(line, field_set, sep) ==
    EmitFields(GetlineTokens(line, sep, 1, <<>>), field_set, TRUE, <<>>, sep)
    \o <<NL>>

RECURSIVE CutLoop(_, _, _, _)
CutLoop(lines, k, field_set, sep) ==
    IF k > Len(lines) THEN <<>>
    ELSE CutLine(lines[k], field_set, sep) \o CutLoop(lines, k + 1, field_set, sep)

\* The tab whatever the delimiter given.
CutSepTabOnly(delimiter) == TAB

\* char sep = delimiter.empty() ? '\t' : delimiter[0]
CutSep(delimiter) == IF delimiter = <<>> THEN TAB ELSE delimiter[1]

InitCut ==
    /\ pc = "cut_call"
    /\ \E l \in SeqsUpTo(CutLines, MaxCutLines) : fs = [f1 |-> FileOf(l)]
    /\ args \in [path : {"f1"}, delimiter : CutDelimiters, fields : CutSelectors]
    /\ local = [lines |-> <<>>, sep |-> "", field_set |-> {}]
    /\ ret = [error |-> "", out |-> <<>>]

\* One call.  std::stoi throwing on a part of the selector ends the call
\* with std::invalid_argument; else ret.out is the string returned.
cut_impl ==
    /\ pc = "cut_call"
    /\ LET lines == read_lines(args.path)
           sep == CutSep(args.delimiter)
           parsed == ParseFields(args.fields)
       IN /\ local' = [lines |-> lines, sep |-> sep, field_set |-> parsed.set]
          /\ ret' = IF parsed.ok
                    THEN [error |-> "", out |-> CutLoop(lines, 1, parsed.set, sep)]
                    ELSE [error |-> "invalid_argument", out |-> <<>>]
    /\ pc' = "done"
    /\ UNCHANGED <<fs, args>>

NextCut == cut_impl

SpecCut == InitCut /\ [][NextCut]_vars


(***************************************************************************)
(* paste_impl, and cut_impl applied to what it returns                      *)
(***************************************************************************)
PasteLines == {<<"a">>, <<>>, <<"a", ":", "b">>}
PasteDelimiters == {<<>>, <<":">>, <<":", ":">>}
PastePaths == <<"p1", "p2", "p3">>

\* std::string sep = delimiter.empty() ? "\t" : delimiter
PasteSep(delimiter) == IF delimiter = <<>> THEN <<TAB>> ELSE delimiter

\* max_lines after the loop over the files
RECURSIVE MaxLines(_, _, _)
MaxLines(all_lines, f, max_lines) ==
    IF f > Len(all_lines) THEN max_lines
    ELSE MaxLines(all_lines, f + 1, Max(max_lines, Len(all_lines[f])))

\* A row that ends at the first file with no line i.
RECURSIVE PasteRowStopAtMissing(_, _, _, _)
PasteRowStopAtMissing(all_lines, i, f, sep) ==
    IF f > Len(all_lines) \/ i > Len(all_lines[f]) THEN <<>>
    ELSE (IF f > 1 THEN sep ELSE <<>>) \o all_lines[f][i]
         \o PasteRowStopAtMissing(all_lines, i, f + 1, sep)

\* The inner loop: row i from file f on; sep before every file but the
\* first, the line when the file has a line i.
RECURSIVE PasteRow(_, _, _, _)
PasteRow(all_lines, i, f, sep) ==
    IF f > Len(all_lines) THEN <<>>
    ELSE (IF f > 1 THEN sep ELSE <<>>)
         \o (IF i <= Len(all_lines[f]) THEN all_lines[f][i] ELSE <<>>)
         \o PasteRow(all_lines, i, f + 1, sep)

\* The outer loop: rows i..max_lines, each followed by a newline.
RECURSIVE PasteRows(_, _, _, _)
PasteRows(all_lines, i, max_lines, sep) ==
    IF i > max_lines THEN <<>>
    ELSE PasteRow(all_lines, i, 1, sep) \o <<NL>>
         \o PasteRows(all_lines, i + 1, max_lines, sep)

\* The files pasted: the first k of the three paths, every file of up to
\* MaxPasteLines lines; the paths not pasted are empty files.
InitPaste ==
    /\ pc = "paste_call"
    /\ \E k \in 0..Len(PastePaths) :
          /\ args \in [files : {SubSeq(PastePaths, 1, k)}, delimiter : PasteDelimiters]
          /\ \E c \in [1..k -> SeqsUpTo(PasteLines, MaxPasteLines)] :
                fs = [p \in {PastePaths[n] : n \in 1..Len(PastePaths)} \cup {"pasted"} |->
                         IF \E n \in 1..k : PastePaths[n] = p
                         THEN FileOf(c[CHOOSE n \in 1..k : PastePaths[n] = p])
                         ELSE <<>>]
    /\ local = [all_lines |-> <<>>, max_lines |-> 0]
    /\ ret = [error |-> "", out |-> <<>>]

paste_impl ==
    /\ pc = "paste_call"
    /\ LET all_lines == [f \in 1..Len(args.files) |-> read_lines(args.files[f])]
           max_lines == MaxLines(all_lines, 1, 0)
       IN /\ local' = [all_lines |-> all_lines, max_lines |-> max_lines]
          /\ ret' = [error |-> "",
                     out |-> PasteRows(all_lines, 1, max_lines, PasteSep(args.delimiter))]
    /\ pc' = "pasted"
    /\ UNCHANGED <<fs, args>>

\* The caller writes the string paste returned to a file and cuts one of the
\* k fields from it, with the delimiter it pasted with.
cut_pasted ==
    /\ pc = "pasted"
    /\ \E i \in 1..Len(args.files) :
          args' = [path |-> "pasted", delimiter |-> args.delimiter,
                   fields |-> to_string(i), files |-> args.files]
    /\ fs' = [fs EXCEPT !["pasted"] = ret.out]
    /\ pc' = "cut_call"
    /\ UNCHANGED <<local, ret>>

NextPaste ==
    \/ paste_impl
    \/ cut_pasted
    \/ cut_impl

SpecPaste == InitPaste /\ [][NextPaste]_vars

(***************************************************************************)
(* grep_impl.  In SpecGrep fs is a tree: fs[p] is the node at path p, a     *)
(* regular file (its bytes, and whether std::ifstream can open it), a       *)
(* directory (its entries in the order the directory iterator yields them)  *)
(* or nothing.                                                              *)
(***************************************************************************)
GrepLines == {<<"a", " ", "b">>, <<"a", "b">>, <<"A">>}
GrepPatterns == {<<"a">>, <<"a", "b">>, <<"(">>}

Missing == [kind |-> "missing"]
File(bytes, readable) == [kind |-> "file", readable |-> readable, bytes |-> bytes]
Dir(entries) == [kind |-> "dir", entries |-> entries]

GrepFiles ==
    {File(FileOf(l), TRUE) : l \in SeqsUpTo(GrepLines, MaxGrepLines)}
    \cup {File(<<>>, FALSE)}

\* The trees under the target path "t": nothing, a file, an empty directory,
\* a directory of one file, and a directory of a file and a subdirectory
\* holding a file, iterated in either order.
GrepTrees ==
    {"t" :> Missing, "t" :> Dir(<<>>)}
    \cup {"t" :> f : f \in GrepFiles}
    \cup {("t" :> Dir(<<"t/x">>)) @@ ("t/x" :> f) : f \in GrepFiles}
    \cup {("t" :> Dir(e)) @@ ("t/x" :> f) @@ ("t/s" :> Dir(<<"t/s/y">>))
            @@ ("t/s/y" :> g) :
          e \in {<<"t/x", "t/s">>, <<"t/s", "t/x">>},
          f \in GrepFiles, g \in GrepFiles}

\* fs::recursive_directory_iterator: every entry, a directory's content right
\* after the directory; the regular files are kept.
RECURSIVE Walk(_, _)
Walk(tree, entries) ==
    IF entries = <<>> THEN <<>>
    ELSE LET e == Head(entries)
         IN (IF tree[e].kind = "file" THEN <<e>> ELSE <<>>)
            \o (IF tree[e].kind = "dir" THEN Walk(tree, tree[e].entries) ELSE <<>>)
            \o Walk(tree, Tail(entries))

\* the lambda collect_files
collect_files(tree, p, recursive) ==
    IF tree[p].kind = "missing"
    THEN [error |-> "grep: No such file or directory", files |-> <<>>]
    ELSE IF tree[p].kind = "file"
    THEN [error |-> "", files |-> <<p>>]
    ELSE IF recursive
    THEN [error |-> "", files |-> Walk(tree, tree[p].entries)]
    ELSE [error |-> "grep: Is a directory (use recursive=True)", files |-> <<>>]

\* if (whole_word) regex_pattern = "\\b" + regex_pattern + "\\b";
RegexPattern(pattern, whole_word) ==
    IF whole_word THEN <<"\\", "b">> \o pattern \o <<"\\", "b">> ELSE pattern

\* std::regex(regex_pattern, ECMAScript): the atoms of the pattern, for
\* patterns of ordinary characters, \b and parentheses.  A parenthesis with
\* no partner is a std::regex_error.
RECURSIVE Compile(_, _, _, _)
Compile(p, k, depth, atoms) ==
    IF k > Len(p)
    THEN [error |-> depth # 0, atoms |-> atoms]
    ELSE IF p[k] = "\\" /\ k < Len(p) /\ p[k + 1] = "b"
    THEN Compile(p, k + 2, depth, Append(atoms, [kind |-> "boundary"]))
    ELSE IF p[k] = "("
    THEN Compile(p, k + 1, depth + 1, atoms)
    ELSE IF p[k] = ")"
    THEN IF depth = 0 THEN [error |-> TRUE, atoms |-> atoms]
         ELSE Compile(p, k + 1, depth - 1, atoms)
    ELSE Compile(p, k + 1, depth, Append(atoms, [kind |-> "char", c |-> p[k]]))

std_regex(regex_pattern, icase) ==
    LET c == Compile(regex_pattern, 1, 0, <<>>)
    IN [error |-> c.error, atoms |-> c.atoms, icase |-> icase]

\* a word character of the regex: a letter, a digit or the underscore
isword(c) == c \in {"a", "b", "c", "A", "B", "_", "0", "1", "2"}

\* \b at position pos: exactly one of the bytes before and at pos is a word
\* character
WordBoundary(line, pos) ==
    LET before == IF pos > 1 THEN isword(line[pos - 1]) ELSE FALSE
        at == IF pos <= Len(line) THEN isword(line[pos]) ELSE FALSE
    IN before # at

RECURSIVE MatchFrom(_, _, _, _)
MatchFrom(line, atoms, icase, pos) ==
    IF atoms = <<>> THEN TRUE
    ELSE IF Head(atoms).kind = "boundary"
    THEN IF WordBoundary(line, pos)
         THEN MatchFrom(line, Tail(atoms), icase, pos)
         ELSE FALSE
    ELSE IF pos > Len(line) THEN FALSE
    ELSE IF (IF icase THEN tolower(line[pos]) = tolower(Head(atoms).c)
             ELSE line[pos] = Head(atoms).c)
    THEN MatchFrom(line, Tail(atoms), icase, pos + 1)
    ELSE FALSE

\* std::regex_search(line, re): a match starting anywhere in the line
regex_search(line, re) ==
    \E pos \in 1..(Len(line) + 1) : MatchFrom(line, re.atoms, re.icase, pos)

\* bool match = std::regex_search(line, re); if (invert) match = !match;
InvertIgnored(line, re, invert) == regex_search(line, re)

Match(line, re, invert) ==
    IF invert THEN ~regex_search(line, re) ELSE regex_search(line, re)

\* A read_lines that would take a file that does not open for an empty file.
try_read_lines_no_throw(tree, file) ==
    [error |-> "",
     lines |-> IF tree[file].readable
               THEN ReadLinesFrom(tree[file].bytes, 1, <<>>, <<>>)
               ELSE <<>>]

\* read_lines of a file of the tree: it throws when the file does not open.
try_read_lines(tree, file) ==
    IF tree[file].readable
    THEN [error |-> "", lines |-> ReadLinesFrom(tree[file].bytes, 1, <<>>, <<>>)]
    ELSE [error |-> "Cannot open file", lines |-> <<>>]

MatchCount(lines, re, invert) ==
    Cardinality({i \in 1..Len(lines) : Match(lines[i], re, invert)})

\* if (count_only): counts[file] = match_count for every file, in turn
RECURSIVE CountLoop(_, _, _, _, _)
CountLoop(tree, files, re, invert, counts) ==
    IF files = <<>> THEN [error |-> "", value |-> counts]
    ELSE LET r == try_read_lines(tree, Head(files))
         IN IF r.error # "" THEN [error |-> r.error]
            ELSE CountLoop(tree, Tail(files), re, invert,
                           (Head(files) :> MatchCount(r.lines, re, invert)) @@ counts)

\* A files loop with no break: the file is appended at every matching line.
RECURSIVE FilesLoopNoBreak(_, _, _, _, _)
FilesLoopNoBreak(tree, files, re, invert, matching_files) ==
    IF files = <<>> THEN [error |-> "", value |-> matching_files]
    ELSE LET r == try_read_lines(tree, Head(files))
         IN IF r.error # "" THEN [error |-> r.error]
            ELSE FilesLoopNoBreak(tree, Tail(files), re, invert,
                    matching_files
                    \o [k \in 1..MatchCount(r.lines, re, invert) |-> Head(files)])

\* if (files_only): the file is appended at its first matching line
RECURSIVE FilesLoop(_, _, _, _, _)
FilesLoop(tree, files, re, invert, matching_files) ==
    IF files = <<>> THEN [error |-> "", value |-> matching_files]
    ELSE LET r == try_read_lines(tree, Head(files))
         IN IF r.error # "" THEN [error |-> r.error]
            ELSE FilesLoop(tree, Tail(files), re, invert,
                           IF \E i \in 1..Len(r.lines) : Match(r.lines[i], re, invert)
                           THEN Append(matching_files, Head(files))
                           ELSE matching_files)

\* py::dict entry: "file" if multi_file, "line_number" if line_numbers, "line"
Entry(file, i, line, multi_file, line_numbers) ==
    IF multi_file /\ line_numbers
    THEN [file |-> file, line_number |-> i, line |-> line]
    ELSE IF multi_file THEN [file |-> file, line |-> line]
    ELSE IF line_numbers THEN [line_number |-> i, line |-> line]
    ELSE [line |-> line]

RECURSIVE EntriesOf(_, _, _, _, _, _, _)
EntriesOf(file, lines, i, re, invert, multi_file, line_numbers) ==
    IF i > Len(lines) THEN <<>>
    ELSE (IF Match(lines[i], re, invert)
          THEN <<Entry(file, i, lines[i], multi_file, line_numbers)>>
          ELSE <<>>)
         \o EntriesOf(file, lines, i + 1, re, invert, multi_file, line_numbers)

RECURSIVE ListLoop(_, _, _, _, _, _, _)
ListLoop(tree, files, re, invert, multi_file, line_numbers, results) ==
    IF files = <<>> THEN [error |-> "", value |-> results]
    ELSE LET r == try_read_lines(tree, Head(files))
         IN IF r.error # "" THEN [error |-> r.error]
            ELSE ListLoop(tree, Tail(files), re, invert, multi_file, line_numbers,
                          results \o EntriesOf(Head(files), r.lines, 1, re, invert,
                                               multi_file, line_numbers))

\* The whole call: the files are collected, then the regex is built, then
\* the files are read in the loop of the selected mode.
Grep(tree, a) ==
    LET c == collect_files(tree, a.path, a.recursive)
        re == std_regex(RegexPattern(a.pattern, a.whole_word), a.ignore_case)
        multi_file == Len(c.files) > 1
    IN IF c.error # "" THEN [error |-> c.error]
       ELSE IF re.error THEN [error |-> "grep: invalid regex pattern"]
       ELSE IF a.count_only
       THEN CountLoop(tree, c.files, re, a.invert, <<>>)
       ELSE IF a.files_only
       THEN FilesLoop(tree, c.files, re, a.invert, <<>>)
       ELSE ListLoop(tree, c.files, re, a.invert, multi_file, a.line_numbers, <<>>)

InitGrep ==
    /\ pc = "grep_call"
    /\ fs \in GrepTrees
    /\ args \in [pattern : GrepPatterns, path : {"t"}, ignore_case : BOOLEAN,
                 recursive : BOOLEAN, line_numbers : BOOLEAN,
                 count_only : BOOLEAN, invert : BOOLEAN, files_only : BOOLEAN,
                 whole_word : BOOLEAN]
    /\ local = [files_to_search |-> <<>>]
    /\ ret = [error |-> ""]

grep_impl ==
    /\ pc = "grep_call"
    /\ local' = [files_to_search |-> collect_files(fs, args.path, args.recursive).files]
    /\ ret' = Grep(fs, args)
    /\ pc' = "done"
    /\ UNCHANGED <<fs, args>>

NextGrep == grep_impl

SpecGrep == InitGrep /\ [][NextGrep]_vars

(***************************************************************************)
(* wc_impl                                                                  *)
(***************************************************************************)
WcBytes == {"a", " ", NL, "\t"}

\* The body of the loop for the byte c, with a word counted at every byte
\* that is not whitespace.
WcStepWordPerByte(l, c) ==
    [l EXCEPT !.byte_count = @ + 1,
              !.char_count = @ + 1,
              !.line_count = IF c = NL THEN @ + 1 ELSE @,
              !.in_word = ~isspace(c),
              !.word_count = IF ~isspace(c) THEN @ + 1 ELSE @]

\* The body of the loop for the byte c.
WcStep(l, c) ==
    [l EXCEPT !.byte_count = @ + 1,
              !.char_count = @ + 1,
              !.line_count = IF c = NL THEN @ + 1 ELSE @,
              !.in_word = ~isspace(c),
              !.word_count = IF ~isspace(c) /\ ~l.in_word THEN @ + 1 ELSE @]

\* The dict returned: "file" and the one count asked for, or all four.
WcResult(path, l, a) ==
    IF a.lines_only THEN [file |-> path, lines |-> l.line_count]
    ELSE IF a.words_only THEN [file |-> path, words |-> l.word_count]
    ELSE IF a.chars_only THEN [file |-> path, chars |-> l.char_count]
    ELSE IF a.bytes_only THEN [file |-> path, bytes |-> l.byte_count]
    ELSE [file |-> path, lines |-> l.line_count, words |-> l.word_count,
          chars |-> l.char_count, bytes |-> l.byte_count]

InitWc ==
    /\ pc = "wc_call"
    /\ fs \in [f1 : SeqsUpTo(WcBytes, MaxWcBytes)]
    /\ args \in [path : {"f1", "f2"}, lines_only : BOOLEAN, words_only : BOOLEAN,
                 chars_only : BOOLEAN, bytes_only : BOOLEAN]
    /\ local = [ifs |-> OpenStream, line_count |-> 0, word_count |-> 0,
                char_count |-> 0, byte_count |-> 0, in_word |-> FALSE]
    /\ ret = [file |-> ""]

\* std::ifstream ifs(path, std::ios::binary); if (!ifs.is_open()) throw
wc_open ==
    /\ pc = "wc_call"
    /\ IF args.path \in DOMAIN fs
       THEN /\ pc' = "wc_loop"
            /\ ret' = ret
       ELSE /\ pc' = "done"
            /\ ret' = [error |-> "wc: No such file or directory"]
    /\ UNCHANGED <<fs, args, local>>

\* while (ifs.get(c)) { ... }: one byte
wc_loop ==
    /\ pc = "wc_loop"
    /\ LET g == Get(fs[args.path], local.ifs)
       IN /\ g.ok
          /\ local' = WcStep([local EXCEPT !.ifs = g.s], g.c)
    /\ UNCHANGED <<pc, fs, args, ret>>

\* the read fails at the end of the file: the result is built and returned
wc_return ==
    /\ pc = "wc_loop"
    /\ LET g == Get(fs[args.path], local.ifs)
       IN /\ ~g.ok
          /\ local' = [local EXCEPT !.ifs = g.s]
    /\ ret' = WcResult(args.path, local, args)
    /\ pc' = "done"
    /\ UNCHANGED <<fs, args>>

NextWc ==
    \/ wc_open
    \/ wc_loop
    \/ wc_return

SpecWc == InitWc /\ [][NextWc]_vars

(***************************************************************************)
(* Properties of diff                                                       *)
(***************************************************************************)
\* Walking an edit script: the text of every Equal and Insert op is kept,
\* every Delete op is skipped.
RECURSIVE ApplyScript(_)
ApplyScript(script) ==
    IF script = <<>> THEN <<>>
    ELSE (IF Head(script).type = "-" THEN <<>> ELSE <<Head(script).text>>)
         \o ApplyScript(Tail(script))

CountType(script, type) ==
    Cardinality({k \in 1..Len(script) : script[k].type = type})

\* C1: diff round trip.  When diff has returned, keeping the Equal and Insert
\* ops of its edit script in order and skipping the Delete ops gives exactly
\* the lines of the second file.
C1_DiffRoundTrip ==
    pc = "done" => ApplyScript(ret.script) = local.lines2

C1_Witness ==
    /\ pc = "done"
    /\ Len(local.lines2) = 3
    /\ local.lines2[1] # local.lines2[3]
    /\ CountType(ret.script, " ") > 0
    /\ CountType(ret.script, "+") > 0
    /\ CountType(ret.script, "-") > 0

\* s is a subsequence of t
RECURSIVE IsSubsequence(_, _)
IsSubsequence(s, t) ==
    IF s = <<>> THEN TRUE
    ELSE IF t = <<>> THEN FALSE
    ELSE IF Head(s) = Head(t) THEN IsSubsequence(Tail(s), Tail(t))
    ELSE IsSubsequence(s, Tail(t))

\* The lines of s at the positions in I, in order.
RECURSIVE Pick(_, _, _)
Pick(s, I, k) ==
    IF k > Len(s) THEN <<>>
    ELSE (IF k \in I THEN <<s[k]>> ELSE <<>>) \o Pick(s, I, k + 1)

\* The length of a longest common subsequence, by enumeration of the
\* subsequences of s.
LCSLength(s, t) ==
    LET common == {I \in SUBSET (1..Len(s)) : IsSubsequence(Pick(s, I, 1), t)}
    IN CHOOSE n \in 0..Len(s) :
          /\ \E I \in common : Cardinality(I) = n
          /\ \A I \in common : Cardinality(I) <= n

\* C5: diff minimality.  The edit script has exactly LCS(A, B) Equal ops, and
\* its Insert and Delete ops number |A| + |B| - 2 * LCS(A, B).
C5_DiffMinimal ==
    pc = "done" =>
        LET lcs == LCSLength(local.lines1, local.lines2)
        IN /\ CountType(ret.script, " ") = lcs
           /\ CountType(ret.script, "+") + CountType(ret.script, "-")
                = Len(local.lines1) + Len(local.lines2) - 2 * lcs

C5_Witness ==
    /\ pc = "done"
    /\ Len(local.lines1) = 3
    /\ Len(local.lines2) = 3
    /\ LCSLength(local.lines1, local.lines2) = 1
    /\ CountType(ret.script, " ") = 1
    /\ \E k \in 1..3 : local.lines1[k] = <<"a">> /\ local.lines2[k] # <<"a">>

\* At this backtrack position the lines differ and stepping left and
\* stepping up give the same LCS value.
BacktrackTie ==
    /\ pc = "backtrack"
    /\ local.i > 0
    /\ local.j > 0
    /\ local.lines1[local.i] # local.lines2[local.j]
    /\ local.dp[local.i][local.j - 1] = local.dp[local.i - 1][local.j]

C6_Example ==
    <<DiffLine(" ", <<"a">>, 1, 1), DiffLine("-", <<"b">>, 2, 0),
      DiffLine("+", <<"x">>, 0, 2), DiffLine(" ", <<"c">>, 3, 3)>>

C6_DeletesFirst ==
    pc = "done" =>
        /\ \A k \in 1..(Len(ret.script) - 1) :
              ~(ret.script[k].type = "+" /\ ret.script[k + 1].type = "-")
        /\ (local.lines1 = <<<<"a">>, <<"b">>, <<"c">>>>
            /\ local.lines2 = <<<<"a">>, <<"x">>, <<"c">>>>)
           => ret.script = C6_Example

\* C6: diff tie-break.  At a backtrack position where the lines differ and
\* left and up give the same LCS value the step taken is the insertion of B's
\* line; and in the script returned no Insert is immediately followed by a
\* Delete, so every run of changes lists its Deletes before its Inserts, as
\* in diff([a,b,c],[a,x,c]) = [Equal a, Delete b, Insert x, Equal c].
C6_DiffTieBreak ==
    /\ [][BacktrackTie =>
            /\ local'.i = local.i
            /\ local'.j = local.j - 1
            /\ local'.diffs = Append(local.diffs,
                                     DiffLine("+", local.lines2[local.j], 0, local.j))]_vars
    /\ []C6_DeletesFirst

C6_Witness ==
    /\ pc = "done"
    /\ local.lines1 = <<<<"a">>, <<"b">>, <<"c">>>>
    /\ local.lines2 = <<<<"a">>, <<"x">>, <<"c">>>>
    /\ local.dp[2][1] = local.dp[1][2]
    /\ ret.script = C6_Example

(***************************************************************************)
(* Properties of cmp                                                        *)
(***************************************************************************)
\* C2: cmp returns identical = true exactly when the two files hold the same
\* bytes; a file that is a strict prefix of the other is not identical to it.
C2_CmpIdenticalIffSameBytes ==
    pc = "done" => (ret.identical <=> fs[args.file1] = fs[args.file2])

(***************************************************************************)
(* Properties of join                                                       *)
(***************************************************************************)
RECURSIVE SumUpTo(_, _)
SumUpTo(count, n) == IF n = 0 THEN 0 ELSE count[n] + SumUpTo(count, n - 1)

\* The positions of the lines of the second file whose key equals the key of
\* line a of the first file.
JoinMatches(a) ==
    {j \in 1..Len(local.lines2) :
        get_field(local.lines2[j], args.field2, local.sep)
          = get_field(a, args.field1, local.sep)}

\* C7: join cardinality.  The rows returned number the sum, over the lines a
\* of the first file, of the lines of the second file whose key equals a's;
\* every row is a, the separator byte, then such a matching line.
C7_JoinCardinality ==
    pc = "done" =>
        LET rows == ReadLinesFrom(ret, 1, <<>>, <<>>)
            count == [i \in 1..Len(local.lines1) |->
                         Cardinality(JoinMatches(local.lines1[i]))]
        IN /\ Len(rows) = SumUpTo(count, Len(local.lines1))
           /\ \A r \in 1..Len(rows) :
                 \E i \in 1..Len(local.lines1) :
                    \E j \in JoinMatches(local.lines1[i]) :
                       rows[r] = local.lines1[i] \o <<local.sep>> \o local.lines2[j]

C7_Witness ==
    /\ pc = "done"
    /\ args.field1 = 1
    /\ args.field2 = 1
    /\ Len(local.lines1) = 2
    /\ Cardinality(JoinMatches(local.lines1[1])) = 2
    /\ local.lines2[1] # local.lines2[2]
    /\ JoinMatches(local.lines1[2]) = {}
    /\ Len(ReadLinesFrom(ret, 1, <<>>, <<>>)) = 2

(***************************************************************************)
(* Properties of comm                                                       *)
(***************************************************************************)
NoDuplicates(s) == \A i, j \in 1..Len(s) : i # j => s[i] # s[j]

\* C8: comm partition.  The three lists are duplicate-free and pairwise
\* disjoint; only_in_first with in_both is the set of lines of the first
\* file, only_in_second with in_both the set of lines of the second.
C8_CommPartition ==
    pc = "done" =>
        LET first == SetOfLines(ret.only_in_first)
            second == SetOfLines(ret.only_in_second)
            both == SetOfLines(ret.in_both)
        IN /\ NoDuplicates(ret.only_in_first)
           /\ NoDuplicates(ret.only_in_second)
           /\ NoDuplicates(ret.in_both)
           /\ first \cap second = {}
           /\ first \cap both = {}
           /\ second \cap both = {}
           /\ first \cup both = SetOfLines(read_lines(args.file1))
           /\ second \cup both = SetOfLines(read_lines(args.file2))

C8_Witness ==
    /\ pc = "done"
    /\ ret.only_in_first # <<>>
    /\ ret.only_in_second # <<>>
    /\ ret.in_both # <<>>
    /\ ~NoDuplicates(local.lines1)
    /\ ~NoDuplicates(local.lines2)

(***************************************************************************)
(* Properties of sort                                                       *)
(***************************************************************************)
\* The lines of the k-th string returned.
Returned(k) == ReadLinesFrom(ret[k], 1, <<>>, <<>>)

\* The comparator reports x and y as equal: neither is less than the other.
Tie(x, y) == ~SortLess(x, y, args) /\ ~SortLess(y, x, args)

\* The comparator puts every two different lines of S in an order, the same
\* whichever way they are asked about: it is a strict total order on S.
TotalOrderOn(S) ==
    /\ IsStrictWeakOrder(S, LessPairs(S, args))
    /\ \A x, y \in S : x # y => ~Tie(x, y)

\* C3 as stated: sort idempotence for every line sequence and every
\* combination of flags.  Sorting the output of sort with the same flags
\* returns the same string.
C3_SortIdempotent ==
    Len(ret) = 2 => ret[2] = ret[1]

\* C3, amended: when the comparator puts every two different lines of the
\* input in an order (a strict total order on the distinct lines: no two
\* different lines have equal keys), sorting the output of sort with the same
\* flags returns the same string, for every reverse and unique.
C3_SortIdempotentNoTies ==
    (Len(ret) = 2 /\ TotalOrderOn(SetOfLines(read_lines("f1"))))
        => ret[2] = ret[1]

C3_Witness ==
    /\ Len(ret) = 2
    /\ TotalOrderOn(SetOfLines(read_lines("f1")))
    /\ Len(read_lines("f1")) = 3
    /\ Cardinality(SetOfLines(read_lines("f1"))) = 2
    /\ ret[1] # fs["f1"]
    /\ args.reverse
    /\ args.unique
    /\ args.ignore_case
    /\ args.key = 2

\* The lines of s that are x or y, in order.
Only(s, x, y) == SelectSeq(s, LAMBDA l : l = x \/ l = y)

\* C4: sort is stable.  With reverse = false two lines the comparator reports
\* as equal keep their input order in the output; with reverse = true the
\* output is the reversal of that stable result.
C4_SortStable ==
    (pc = "done" /\ Len(ret) = 1 /\ ~args.unique) =>
        LET forward == IF args.reverse THEN Reverse(Returned(1)) ELSE Returned(1)
        IN \A x, y \in SetOfLines(local.lines) :
              Tie(x, y) => Only(forward, x, y) = Only(local.lines, x, y)

\* C9: with unique = true no line text appears more than once in the output,
\* whatever the other flags.
C9_SortUniqueNoDuplicates ==
    (pc = "done" /\ Len(ret) = 1 /\ args.unique) => NoDuplicates(Returned(1))

\* The lines of s that differ from their immediate predecessor in s.
RECURSIVE AdjacentDistinct(_, _)
AdjacentDistinct(s, k) ==
    IF k > Len(s) THEN <<>>
    ELSE (IF k > 1 /\ s[k] = s[k - 1] THEN <<>> ELSE <<s[k]>>)
         \o AdjacentDistinct(s, k + 1)

\* C10: unique is adjacent de-duplication after sorting and reversal.  The
\* output is the sorted, and if reverse reversed, sequence without the lines
\* identical to their immediate predecessor there; lines with equal keys and
\* different text all stay.
C10_SortUniqueAdjacent ==
    (pc = "done" /\ Len(ret) = 1) =>
        LET ordered == IF args.reverse THEN Reverse(local.sorted) ELSE local.sorted
        IN /\ args.unique => Returned(1) = AdjacentDistinct(ordered, 1)
           /\ ~args.unique => Returned(1) = ordered
           /\ SetOfLines(Returned(1)) = SetOfLines(local.lines)

C10_Witness ==
    /\ pc = "done"
    /\ Len(ret) = 1
    /\ args.unique
    /\ args.reverse
    /\ Len(local.sorted) = 3
    /\ Len(Returned(1)) = 2
    /\ Returned(1)[1] # Returned(1)[2]
    /\ Tie(Returned(1)[1], Returned(1)[2])

\* The key of a line parses as a number.
KeyParses(line) == stod(get_key(line, args.key, args.separator)).ok

KeyValue(line) == stod(get_key(line, args.key, args.separator)).val

\* The order the numeric mode is to compare by: the values of the keys when
\* both parse, else the whole lines, byte by byte.
NumericFallbackLess(x, y) ==
    IF KeyParses(x) /\ KeyParses(y) THEN KeyValue(x) < KeyValue(y)
    ELSE StrLess(x, y)

\* C11: sort numeric fallback.  In numeric mode the comparator sort uses
\* compares two lines by the values of their keys when both keys parse and by
\* the whole lines otherwise; the call returns, and no line of what std::sort
\* leaves is before a line that this order puts before it.
C11_SortNumericFallback ==
    (pc = "done" /\ Len(ret) = 1 /\ args.numeric) =>
        /\ \A x, y \in SetOfLines(local.lines) :
              SortLess(x, y, args) <=> NumericFallbackLess(x, y)
        /\ Len(local.sorted) = Len(local.lines)
        /\ \A k \in 1..(Len(local.sorted) - 1) :
              ~NumericFallbackLess(local.sorted[k + 1], local.sorted[k])

C11_Witness ==
    /\ pc = "done"
    /\ Len(ret) = 1
    /\ args.numeric
    /\ args.key = 2
    /\ Len(local.lines) = 3
    /\ KeyParses(local.lines[1])
    /\ ~KeyParses(local.lines[2])
    /\ ~KeyParses(local.lines[3])
    /\ get_key(local.lines[2], args.key, args.separator) = <<>>
    /\ StrLess(local.lines[3], local.lines[2])
    /\ local.sorted # local.lines

\* The key sort derives from a line outside numeric mode: the whole line when
\* key is 0, the key-th field otherwise, lowercased under ignore_case.
DerivedKey(line) ==
    LET k == get_key(line, args.key, args.separator)
    IN IF args.ignore_case THEN ToLower(k) ELSE k

\* C12: sort ordering.  Outside numeric mode and with reverse = false the
\* lines returned are in non-decreasing lexicographic order of their derived
\* keys; the lines b, a, c, sorted on the whole line, come back as a, b, c.
C12_SortOrdering ==
    (pc = "done" /\ Len(ret) = 1 /\ ~args.numeric /\ ~args.reverse) =>
        /\ \A k \in 1..(Len(Returned(1)) - 1) :
              ~StrLess(DerivedKey(Returned(1)[k + 1]), DerivedKey(Returned(1)[k]))
        /\ (args.key = 0 /\ local.lines = <<<<"b">>, <<"a">>, <<"c">>>>)
              => Returned(1) = <<<<"a">>, <<"b">>, <<"c">>>>

C12_Witness ==
    /\ pc = "done"
    /\ Len(ret) = 1
    /\ ~args.numeric
    /\ ~args.reverse
    /\ args.ignore_case
    /\ args.key = 2
    /\ args.separator = <<":">>
    /\ Len(Returned(1)) = 3
    /\ Returned(1) # local.lines
    /\ StrLess(DerivedKey(Returned(1)[1]), DerivedKey(Returned(1)[3]))
    /\ StrLess(Returned(1)[3], Returned(1)[1])

\* The number of times line x occurs in s.
Occurrences(s, x) == Cardinality({k \in 1..Len(s) : s[k] = x})

\* C13: sort never alters line text.  With unique = false the lines returned
\* are the lines of the file, each with its own bytes and as many times as it
\* occurs in the file, whatever the other flags.
C13_SortPermutation ==
    (pc = "done" /\ Len(ret) = 1 /\ ~args.unique) =>
        LET input == ReadLinesFrom(fs[args.path], 1, <<>>, <<>>)
        IN /\ Len(Returned(1)) = Len(input)
           /\ \A x \in SetOfLines(input) \cup SetOfLines(Returned(1)) :
                 Occurrences(Returned(1), x) = Occurrences(input, x)

C13_Witness ==
    /\ pc = "done"
    /\ Len(ret) = 1
    /\ ~args.unique
    /\ args.ignore_case
    /\ ~args.numeric
    /\ args.key = 1
    /\ Len(Returned(1)) = 3
    /\ Returned(1) # ReadLinesFrom(fs[args.path], 1, <<>>, <<>>)
    /\ Returned(1)[1] = <<"A", " ", "1", "0">>
    /\ Returned(1)[2] = <<"a", " ", "1", "0">>

(***************************************************************************)
(* Properties of cmp: the position reported                                 *)
(***************************************************************************)
\* The positions both files have a byte at, where the bytes differ.
CmpDiffering ==
    {k \in 1..Min(Len(fs[args.file1]), Len(fs[args.file2])) :
        fs[args.file1][k] # fs[args.file2][k]}

\* The first position where the files differ, when there is one.
FirstDiffering == CHOOSE k \in CmpDiffering : \A m \in CmpDiffering : k <= m

\* One file is the other followed by at least one more byte.
StrictPrefix ==
    /\ CmpDiffering = {}
    /\ Len(fs[args.file1]) # Len(fs[args.file2])

\* C14: cmp byte offset.  When the files differ at a position both have, the
\* result carries the first such position as byte_offset; when one file is a
\* strict prefix of the other it carries the length of the shorter plus one.
C14_CmpByteOffset ==
    (pc = "done" /\ ~args.silent) =>
        /\ CmpDiffering # {} =>
              ("byte_offset" \in DOMAIN ret /\ ret.byte_offset = FirstDiffering)
        /\ StrictPrefix =>
              /\ "byte_offset" \in DOMAIN ret
              /\ ret.byte_offset
                    = Min(Len(fs[args.file1]), Len(fs[args.file2])) + 1

\* The number of newline bytes among the first n bytes of the first file.
NewlinesUpTo(n) ==
    Cardinality({k \in 1..Min(n, Len(fs[args.file1])) : fs[args.file1][k] = NL})

\* C15: cmp line number matches the numbering of read_lines.  When cmp
\* reports a mismatch at byte offset k, line_number is the index of the line
\* of the first file that holds byte k: one plus the number of newline bytes
\* strictly before byte k.
C15_CmpLineNumberOfLine ==
    (pc = "done" /\ "byte_offset" \in DOMAIN ret) =>
        ret.line_number = 1 + NewlinesUpTo(ret.byte_offset - 1)

\* C16: cmp line counter.  When a mismatch is found at byte offset k inside
\* both files, line_number is one plus the number of newline bytes among
\* bytes 1..k of the first file, byte k included.
C16_CmpLineCounter ==
    (pc = "done" /\ "byte_offset" \in DOMAIN ret /\ CmpDiffering # {}) =>
        /\ ret.byte_offset = FirstDiffering
        /\ ret.line_number = 1 + NewlinesUpTo(ret.byte_offset)

C16_Witness ==
    /\ pc = "done"
    /\ "byte_offset" \in DOMAIN ret
    /\ CmpDiffering # {}
    /\ ret.byte_offset = 3
    /\ fs[args.file1][3] = NL
    /\ fs[args.file1][1] = NL
    /\ ret.line_number = 3

(***************************************************************************)
(* Properties of cut                                                        *)
(***************************************************************************)
\* The pieces of s between the occurrences of sep.
RECURSIVE Pieces(_, _)
Pieces(s, sep) ==
    LET pos == FindFrom(s, sep, 1)
    IN IF pos = 0 THEN <<s>>
       ELSE <<SubSeq(s, 1, pos - 1)>> \o Pieces(SubSeq(s, pos + 1, Len(s)), sep)

\* The fields of a line: its pieces, sep taken as ending a field, so that
\* nothing follows a final sep and the empty line has no field.
LineFields(line, sep) ==
    LET p == Pieces(line, sep)
    IN IF p[Len(p)] = <<>> THEN SubSeq(p, 1, Len(p) - 1) ELSE p

\* The selector names index f: one of its parts is f or a range holding f.
Selected(f) ==
    LET parts == GetlineTokens(args.fields, ",", 1, <<>>)
    IN \E k \in 1..Len(parts) : f \in PartFields(parts[k]).set

\* The fields at the indices of I, ascending from f, joined by sep.
RECURSIVE JoinFrom(_, _, _, _, _)
JoinFrom(fields, I, f, first, sep) ==
    IF f > Len(fields) THEN <<>>
    ELSE IF f \in I
         THEN (IF first THEN <<>> ELSE <<sep>>) \o fields[f]
              \o JoinFrom(fields, I, f + 1, FALSE, sep)
         ELSE JoinFrom(fields, I, f + 1, first, sep)

\* C17: cut selection.  cut returns one line for every line of the file: the
\* fields of that line whose index the selector names, each once, in
\* ascending index order, joined by the delimiter; "a:b:c" cut at ":" with
\* fields "1,3" is "a:c".
C17_CutSelection ==
    (pc = "done" /\ "fields" \in DOMAIN args /\ ret.error = "") =>
        LET out == ReadLinesFrom(ret.out, 1, <<>>, <<>>)
            input == ReadLinesFrom(fs[args.path], 1, <<>>, <<>>)
            sep == IF args.delimiter = <<>> THEN TAB ELSE args.delimiter[1]
        IN /\ Len(out) = Len(input)
           /\ \A k \in 1..Len(input) :
                 LET fields == LineFields(input[k], sep)
                 IN /\ out[k] = JoinFrom(fields, {f \in 1..Len(fields) : Selected(f)},
                                         1, TRUE, sep)
                    /\ (input[k] = <<"a", ":", "b", ":", "c">> /\ sep = ":"
                        /\ args.fields = <<"1", ",", "3">>)
                          => out[k] = <<"a", ":", "c">>

C17_Witness ==
    /\ pc = "done"
    /\ "fields" \in DOMAIN args
    /\ ret.error = ""
    /\ args.fields = <<"1", "-", "2", ",", "2", "-", "3">>
    /\ args.delimiter = <<":">>
    /\ local.lines = <<<<"a", ":", "b", ":", "c">>, <<"a">>>>
    /\ ret.out = <<"a", ":", "b", ":", "c", NL, "a", NL>>

\* The indices from 1 that the selector names.
SelectedIndices ==
    LET parts == GetlineTokens(args.fields, ",", 1, <<>>)
    IN {f \in UNION {PartFields(parts[k]).set : k \in 1..Len(parts)} : f >= 1}

\* The fields of a line followed by empty fields up to index n.
PaddedFields(fields, n) ==
    [f \in 1..Max(n, Len(fields)) |-> IF f <= Len(fields) THEN fields[f] ELSE <<>>]

\* C18: cut with an out-of-range index.  In delimiter mode a selected index
\* past the last field of the line gives an empty field in the line
\* returned, which so has one field for every selected index; the call does
\* not fail.
C18_CutOutOfRangeEmptyField ==
    (pc = "done" /\ "fields" \in DOMAIN args /\ args.delimiter # <<>>
     /\ ParseFields(args.fields).ok) =>
        LET out == ReadLinesFrom(ret.out, 1, <<>>, <<>>)
            input == ReadLinesFrom(fs[args.path], 1, <<>>, <<>>)
            sep == args.delimiter[1]
            top == IF SelectedIndices = {} THEN 0
                   ELSE CHOOSE x \in SelectedIndices : \A y \in SelectedIndices : y <= x
        IN /\ ret.error = ""
           /\ \A k \in 1..Len(input) :
                 out[k] = JoinFrom(PaddedFields(LineFields(input[k], sep), top),
                                   SelectedIndices, 1, TRUE, sep)

(***************************************************************************)
(* Properties of paste                                                      *)
(***************************************************************************)
\* The lines of the f-th file pasted.
PastedFile(f) == ReadLinesFrom(fs[args.files[f]], 1, <<>>, <<>>)

\* The longest line count among the files pasted.
LongestFile ==
    LET counts == {Len(PastedFile(f)) : f \in 1..Len(args.files)} \cup {0}
    IN CHOOSE n \in counts : \A m \in counts : m <= n

\* Line i of the f-th file, empty when the file has no line i.
PastedField(f, i) ==
    IF i <= Len(PastedFile(f)) THEN PastedFile(f)[i] ELSE <<>>

\* Fields f..k of row i with the delimiter between them.
RECURSIVE ExpectedRow(_, _, _)
ExpectedRow(i, f, sep) ==
    IF f > Len(args.files) THEN <<>>
    ELSE IF f = Len(args.files) THEN PastedField(f, i)
    ELSE PastedField(f, i) \o sep \o ExpectedRow(i, f + 1, sep)

\* sep occurs in s at position p.
OccursAt(s, sep, p) ==
    /\ p + Len(sep) - 1 <= Len(s)
    /\ SubSeq(s, p, p + Len(sep) - 1) = sep

\* The number of delimiters in s, read from the left.
RECURSIVE CountDelimiters(_, _, _)
CountDelimiters(s, sep, p) ==
    IF p > Len(s) THEN 0
    ELSE IF OccursAt(s, sep, p) THEN 1 + CountDelimiters(s, sep, p + Len(sep))
    ELSE CountDelimiters(s, sep, p + 1)

\* No line of a file pasted contains the delimiter.
NoLineHasDelimiter(sep) ==
    \A f \in 1..Len(args.files) : \A i \in 1..Len(PastedFile(f)) :
        \A p \in 1..Len(PastedFile(f)[i]) : ~OccursAt(PastedFile(f)[i], sep, p)

\* C19: paste does not stop at the shortest file.  The string returned has as
\* many rows as the longest file has lines; row i is line i of every file in
\* argument order, empty for a file with no line i, with the delimiter
\* between them, so k - 1 delimiters when no line contains the delimiter.
C19_PasteRows ==
    pc = "pasted" =>
        LET rows == ReadLinesFrom(ret.out, 1, <<>>, <<>>)
            sep == IF args.delimiter = <<>> THEN <<TAB>> ELSE args.delimiter
        IN /\ Len(rows) = LongestFile
           /\ \A i \in 1..Len(rows) :
                 /\ rows[i] = ExpectedRow(i, 1, sep)
                 /\ NoLineHasDelimiter(sep)
                      => CountDelimiters(rows[i], sep, 1) = Len(args.files) - 1

C19_Witness ==
    /\ pc = "pasted"
    /\ Len(args.files) = 3
    /\ args.delimiter = <<":">>
    /\ Len(PastedFile(1)) = 1
    /\ Len(PastedFile(2)) = 0
    /\ Len(PastedFile(3)) = 2
    /\ PastedFile(3)[2] = <<"a">>
    /\ NoLineHasDelimiter(<<":">>)
    /\ Len(ReadLinesFrom(ret.out, 1, <<>>, <<>>)) = 2
    /\ ReadLinesFrom(ret.out, 1, <<>>, <<>>)[2] = <<":", ":", "a">>

\* C20: cut/paste inverse.  For files whose lines do not contain the
\* one-byte delimiter d (the tab when none is given), field i cut with d
\* from what paste returned with d is, line for line, the i-th file, with an
\* empty line for every row the file has no line for.
C20_CutPasteInverse ==
    (pc = "done" /\ "files" \in DOMAIN args /\ Len(args.delimiter) <= 1
     /\ NoLineHasDelimiter(IF args.delimiter = <<>> THEN <<TAB>> ELSE args.delimiter)) =>
        LET i == stoi(args.fields).val
        IN /\ ret.error = ""
           /\ ReadLinesFrom(ret.out, 1, <<>>, <<>>)
                = [row \in 1..LongestFile |-> PastedField(i, row)]

C20_Witness ==
    /\ pc = "done"
    /\ "files" \in DOMAIN args
    /\ args.delimiter = <<":">>
    /\ NoLineHasDelimiter(<<":">>)
    /\ Len(args.files) = 3
    /\ args.fields = <<"2">>
    /\ PastedFile(1) = <<<<"a">>, <<"a">>>>
    /\ PastedFile(2) = <<<<"a">>>>
    /\ PastedFile(3) = <<<<>>, <<"a">>>>
    /\ ret.out = <<"a", NL, NL>>

(***************************************************************************)
(* Properties of the field index 0                                          *)
(***************************************************************************)
\* The rows of a join whose key is the entire line on both sides: line a of
\* the first file is paired with every line of the second file equal to it.
RECURSIVE WholeLineRows(_, _, _)
WholeLineRows(a, lines2, sep) ==
    IF lines2 = <<>> THEN <<>>
    ELSE (IF Head(lines2) = a THEN a \o <<sep>> \o Head(lines2) \o <<NL>>
          ELSE <<>>)
         \o WholeLineRows(a, Tail(lines2), sep)

RECURSIVE WholeLineJoin(_, _, _)
WholeLineJoin(lines1, lines2, sep) ==
    IF lines1 = <<>> THEN <<>>
    ELSE WholeLineRows(Head(lines1), lines2, sep)
         \o WholeLineJoin(Tail(lines1), lines2, sep)

\* C21: field index 0 means the entire line.  For join: with field1 = 0 and
\* field2 = 0, in whitespace mode and in delimiter mode, the join key of a
\* line is the line itself, so the rows returned are those pairing a line of
\* the first file with the lines of the second file equal to it.
C21_FieldZeroWholeLine ==
    (pc = "done" /\ args.field1 = 0 /\ args.field2 = 0) =>
        ret = WholeLineJoin(local.lines1, local.lines2, local.sep)

(***************************************************************************)
(* Properties of grep                                                       *)
(***************************************************************************)
InvalidPattern ==
    std_regex(RegexPattern(args.pattern, args.whole_word), args.ignore_case).error

\* C22: an invalid pattern is rejected before any file I/O.  Whenever the
\* pattern, after the whole_word wrapping, is not a valid regular expression,
\* the call fails with the invalid-pattern error, also when the target path
\* is missing or is a directory.
C22_GrepInvalidPatternFirst ==
    (pc = "done" /\ InvalidPattern) => ret.error = "grep: invalid regex pattern"

Unreadable(file) == ~fs[file].readable

\* C23: grep is all-or-nothing over files.  When one of the files to search
\* cannot be read, the call fails with an error and returns no result, for
\* none of the other files either, in the line listing, in count_only and in
\* files_only mode.
C23_GrepAllOrNothing ==
    (/\ pc = "done"
     /\ \E k \in 1..Len(local.files_to_search) :
           Unreadable(local.files_to_search[k]))
    => (ret.error # "" /\ "value" \notin DOMAIN ret)

\* Two files, the first read with a matching line before the second fails to
\* open.
C23_Witness ==
    /\ pc = "done"
    /\ ~InvalidPattern
    /\ ~args.count_only
    /\ ~args.files_only
    /\ Len(local.files_to_search) = 2
    /\ ~Unreadable(local.files_to_search[1])
    /\ Unreadable(local.files_to_search[2])
    /\ \E line \in GrepLines :
          /\ fs[local.files_to_search[1]].bytes = line \o <<NL>>
          /\ Match(line, std_regex(RegexPattern(args.pattern, args.whole_word),
                                   args.ignore_case), args.invert)
    /\ ret = [error |-> "Cannot open file"]

\* The same call with invert flipped, on the same files.
Inverted == Grep(fs, [args EXCEPT !.invert = ~args.invert])

\* The line numbers of the entries of a line listing that belong to a file
\* (an entry of a single-file search carries no file).
LineNumbersOf(value, file) ==
    {value[k].line_number :
        k \in {n \in 1..Len(value) :
                  "file" \in DOMAIN value[n] => value[n].file = file}}

LinesOfFile(file) == ReadLinesFrom(fs[file].bytes, 1, <<>>, <<>>)

\* C24: invert is a per-line complement.  For the same pattern, ignore_case,
\* whole_word and files, the line numbers listed for a file of N lines with
\* invert set are exactly the numbers of 1..N not listed without it, and the
\* two count_only counts of the file sum to N.
C24_GrepInvertComplement ==
    (pc = "done" /\ ret.error = "") =>
        \A k \in 1..Len(local.files_to_search) :
            LET file == local.files_to_search[k]
                N == Len(LinesOfFile(file))
            IN /\ (~args.count_only /\ ~args.files_only /\ args.line_numbers)
                  => LineNumbersOf(ret.value, file)
                       = (1..N) \ LineNumbersOf(Inverted.value, file)
               /\ args.count_only
                  => ret.value[file] + Inverted.value[file] = N

\* A listing with invert set of a file of two lines, one matching and one
\* not, among two files.
C24_Witness ==
    /\ pc = "done"
    /\ ret.error = ""
    /\ args.invert
    /\ args.line_numbers
    /\ ~args.count_only
    /\ ~args.files_only
    /\ Len(local.files_to_search) = 2
    /\ Len(LinesOfFile("t/x")) = 2
    /\ LineNumbersOf(ret.value, "t/x") = {2}
    /\ LineNumbersOf(Inverted.value, "t/x") = {1}

\* The same call in each of the three modes.
CountMode == Grep(fs, [args EXCEPT !.count_only = TRUE, !.files_only = FALSE])
FilesMode == Grep(fs, [args EXCEPT !.count_only = FALSE, !.files_only = TRUE])
ListMode == Grep(fs, [args EXCEPT !.count_only = FALSE, !.files_only = FALSE])

Searched == {local.files_to_search[k] : k \in 1..Len(local.files_to_search)}

\* The number of entries of a line listing that belong to a file.
EntriesOfFile(value, file) ==
    Cardinality({n \in 1..Len(value) :
                    "file" \in DOMAIN value[n] => value[n].file = file})

Listed(value) == {value[k] : k \in 1..Len(value)}

\* C28: the three output modes agree.  The count mapping has a key for
\* every searched file, also for one with no match; the count of a file is
\* the number of entries the line listing has for it; a file is in the
\* files_only list exactly if its count is positive, and at most once; with
\* count_only and files_only both set the count mapping is returned.
C28_GrepModesAgree ==
    (pc = "done" /\ ret.error = "") =>
        /\ args.count_only =>
             /\ ret = CountMode
             /\ DOMAIN ret.value = Searched
             /\ \A file \in Searched :
                   /\ ret.value[file] = EntriesOfFile(ListMode.value, file)
                   /\ ret.value[file] > 0 <=> file \in Listed(FilesMode.value)
        /\ (args.files_only /\ ~args.count_only) =>
             /\ NoDuplicates(ret.value)
             /\ \A file \in Searched :
                   file \in Listed(ret.value) <=> CountMode.value[file] > 0
        /\ (~args.files_only /\ ~args.count_only) =>
             \A file \in Searched :
                EntriesOfFile(ret.value, file) = CountMode.value[file]

\* Both mode flags set, two files searched: one with two selected lines, one
\* with none.
C28_Witness ==
    /\ pc = "done"
    /\ ret.error = ""
    /\ args.count_only
    /\ args.files_only
    /\ Searched = {"t/x", "t/s/y"}
    /\ ret.value["t/x"] = 2
    /\ ret.value["t/s/y"] = 0
    /\ Len(LinesOfFile("t/s/y")) = 2
    /\ FilesMode.value = <<"t/x">>
    /\ Len(ListMode.value) = 2

(***************************************************************************)
(* Properties of the edit script and of its rendering                       *)
(***************************************************************************)
OpsOfFirst(script) == SelectSeq(script, LAMBDA d : d.type \in {" ", "-"})
OpsOfSecond(script) == SelectSeq(script, LAMBDA d : d.type \in {" ", "+"})

\* C25: the edit script keeps the order and the positions of both inputs.
\* The Equal and Delete ops, in script order, carry the first-file positions
\* 1, 2, ..., |A| with the text of that line of A; the Equal and Insert ops
\* carry the second-file positions 1, 2, ..., |B| with the text of that line
\* of B; an Insert has first-file position 0 and a Delete second-file
\* position 0.
C25_DiffPositions ==
    pc = "done" =>
        LET first == OpsOfFirst(ret.script)
            second == OpsOfSecond(ret.script)
        IN /\ Len(first) = Len(local.lines1)
           /\ \A k \in 1..Len(first) :
                 first[k].line1 = k /\ first[k].text = local.lines1[k]
           /\ Len(second) = Len(local.lines2)
           /\ \A k \in 1..Len(second) :
                 second[k].line2 = k /\ second[k].text = local.lines2[k]
           /\ \A k \in 1..Len(ret.script) :
                 /\ ret.script[k].type = "+" => ret.script[k].line1 = 0
                 /\ ret.script[k].type = "-" => ret.script[k].line2 = 0

\* Two files of three lines whose script has an op of each kind and an Equal
\* op at different positions of the two files.
C25_Witness ==
    /\ pc = "done"
    /\ Len(local.lines1) = 3
    /\ Len(local.lines2) = 3
    /\ CountType(ret.script, "+") > 0
    /\ CountType(ret.script, "-") > 0
    /\ \E k \in 1..Len(ret.script) :
          /\ ret.script[k].type = " "
          /\ ret.script[k].line1 # ret.script[k].line2

\* The line an op is rendered as: its type, a space, its text.
OpLine(d) == <<d.type, " ">> \o d.text

OpLines(script) == [k \in 1..Len(script) |-> OpLine(script[k])]

Changes(script) == SelectSeq(script, LAMBDA d : d.type # " ")

\* C26: diff rendering.  Whatever context_lines is, the unified output is the
\* two header lines followed by one line per op of the edit script, the
\* Equal ops included, and the plain output has no header and one line per
\* Insert or Delete op and none for an Equal op; the plain diff of a file
\* against the same content is the empty string.
C26_DiffRendering ==
    pc = "done" =>
        /\ args.unified =>
              ret.out = FileOf(<<<<"-", "-", "-", " ">> \o PathBytes(args.file1),
                                 <<"+", "+", "+", " ">> \o PathBytes(args.file2)>>
                               \o OpLines(ret.script))
        /\ ~args.unified => ret.out = FileOf(OpLines(Changes(ret.script)))
        /\ (~args.unified /\ fs[args.file1] = fs[args.file2]) => ret.out = <<>>

\* A unified diff with context_lines = 0 of three-line files whose script
\* begins with two Equal ops, the first not next to any change.
C26_Witness ==
    /\ pc = "done"
    /\ args.unified
    /\ args.context_lines = 0
    /\ Len(ret.script) = 4
    /\ ret.script[1].type = " "
    /\ ret.script[2].type = " "
    /\ ret.script[3].type = "-"
    /\ ret.script[4].type = "+"
    /\ Len(ReadLinesFrom(ret.out, 1, <<>>, <<>>)) = 6

(***************************************************************************)
(* Properties of wc                                                         *)
(***************************************************************************)
\* The number of newline bytes.
Newlines(bytes) == Cardinality({k \in 1..Len(bytes) : bytes[k] = NL})

\* The number of maximal runs of bytes that are not whitespace: the positions
\* where such a run starts.
WordRuns(bytes) ==
    Cardinality({k \in 1..Len(bytes) :
                    /\ ~isspace(bytes[k])
                    /\ (k = 1 \/ isspace(bytes[k - 1]))})

\* C27: wc counts.  Every count in the dict returned is right: lines is the
\* number of newline bytes, words the number of maximal runs of bytes that
\* are not whitespace, chars and bytes the number of bytes of the file; a
\* file whose last line has no newline reports one line fewer than
\* read_lines returns.
C27_WcCounts ==
    (pc = "done" /\ "file" \in DOMAIN ret) =>
        LET bytes == fs[args.path]
        IN /\ "lines" \in DOMAIN ret => ret.lines = Newlines(bytes)
           /\ "words" \in DOMAIN ret => ret.words = WordRuns(bytes)
           /\ "chars" \in DOMAIN ret => ret.chars = Len(bytes)
           /\ "bytes" \in DOMAIN ret => ret.bytes = Len(bytes)
           /\ ~(args.lines_only \/ args.words_only \/ args.chars_only
                \/ args.bytes_only)
              => DOMAIN ret = {"file", "lines", "words", "chars", "bytes"}
           /\ ("lines" \in DOMAIN ret /\ bytes # <<>> /\ bytes[Len(bytes)] # NL)
              => ret.lines = Len(read_lines(args.path)) - 1

\* All four counts of "a\na ": two words, one newline, and a last line with
\* no newline, so two lines for read_lines.
C27_Witness ==
    /\ pc = "done"
    /\ args.path = "f1"
    /\ fs.f1 = <<"a", NL, "a", " ">>
    /\ Len(read_lines("f1")) = 2
    /\ ret = [file |-> "f1", lines |-> 1, words |-> 2, chars |-> 4, bytes |-> 4]

(***************************************************************************)
(* Properties of the numeric comparator                                     *)
(***************************************************************************)
SortedLines == {local.lines[k] : k \in 1..Len(local.lines)}

\* C29: the numeric-mode comparator is a strict weak ordering of the lines
\* sorted.  No line is before itself, and the relation is transitive, so no
\* three lines a, b, c have a before b, b before c and c before a, whether
\* their keys parse as numbers or not and whatever key and separator select.
C29_NumericStrictWeakOrder ==
    (pc = "done" /\ args.numeric) =>
        LET lt == LessPairs(SortedLines, args)
        IN /\ \A x \in SortedLines : <<x, x>> \notin lt
           /\ \A x, y, z \in SortedLines :
                 (<<x, y>> \in lt /\ <<y, z>> \in lt) => <<x, z>> \in lt
           /\ \A x, y, z \in SortedLines :
                 ~(<<x, y>> \in lt /\ <<y, z>> \in lt /\ <<z, x>> \in lt)

(***************************************************************************)
(* Properties of the backtrack loop                                         *)
(***************************************************************************)
\* One iteration of the backtrack loop: an op is pushed.
BacktrackIteration ==
    pc = "backtrack" /\ Len(local'.diffs) = Len(local.diffs) + 1

PushedOp == local'.diffs[Len(local'.diffs)]

\* C30: the backtrack loop ends at (0, 0).  It starts at (|A|, |B|); every
\* iteration strictly decreases i + j and keeps 0 <= i <= |A| and
\* 0 <= j <= |B|; a line of A is read only at i > 0 and a line of B only at
\* j > 0, so the Delete branch is never taken with i = 0; the iterations
\* number at most |A| + |B|, and the loop is left, at i = 0 and j = 0.
C30_BacktrackTerminates ==
    /\ [][BacktrackIteration =>
            /\ local'.i + local'.j < local.i + local.j
            /\ PushedOp.type \in {" ", "-"} =>
                  (local.i > 0 /\ PushedOp.text = local.lines1[local.i])
            /\ PushedOp.type \in {" ", "+"} =>
                  (local.j > 0 /\ PushedOp.text = local.lines2[local.j])]_vars
    /\ [](pc \in {"backtrack", "done"} =>
            /\ local.i \in 0..Len(local.lines1)
            /\ local.j \in 0..Len(local.lines2)
            /\ Len(local.diffs) + local.i + local.j
                 <= Len(local.lines1) + Len(local.lines2))
    /\ [](pc = "done" => (local.i = 0 /\ local.j = 0))
    /\ (pc = "backtrack") ~> (pc = "done")

\* The loop has ended on files of three lines after an Equal, a Delete, an
\* Equal and last, at i = 0, an Insert.
C30_Witness ==
    /\ pc = "done"
    /\ Len(local.lines1) = 3
    /\ Len(local.lines2) = 3
    /\ Len(local.diffs) = 4
    /\ local.diffs[1].type = " "
    /\ local.diffs[2].type = "-"
    /\ local.diffs[3].type = " "
    /\ local.diffs[4].type = "+"
    /\ local.i = 0
    /\ local.j = 0

====
